---- MODULE Spec2Model ----
(***************************************************************************)
(* The vector service's storage core: HNSWIndex (src/hnsw_index.cpp), a    *)
(* keyed payload store wrapped around the usearch graph primitive, and     *)
(* VectorStorage (src/vector_storage.cpp), the collection manager.         *)
(*                                                                         *)
(* Every HNSWIndex operation runs under the index's shared_mutex from its  *)
(* first read of mutable state to its return, so one operation is one      *)
(* action.  batch_insert is the exception: it calls insert once per        *)
(* record and each call takes the lock on its own, so it is one action per *)
(* record and other operations interleave between the records.             *)
(*                                                                         *)
(* The usearch primitive (index_dense_gt) is a library outside the         *)
(* repository.  It is modelled by the contract the index relies on: a set  *)
(* of keyed vectors with a reserved capacity, an add that fails when the   *)
(* capacity is used up or the key is present (usearch raises an unconsumed *)
(* error as std::runtime_error), and a search that returns at most the     *)
(* wanted number of distinct members in non-decreasing distance - which    *)
(* members is left open, the search being approximate.                     *)
(***************************************************************************)
EXTENDS Integers, Sequences, FiniteSets, TLC

(***************************************************************************)
(* Bounds of the exploration.                                              *)
(***************************************************************************)
\* insert is explored while the key counter is at most MaxKey
MaxKey == 2
\* longest batch handed to batch_insert
MaxBatch == 2
\* largest k handed to search
MaxK == 2

(***************************************************************************)
(* Maps (std::unordered_map) are functions; these are operator[]= / erase. *)
(***************************************************************************)
EmptyMap == [x \in {} |-> 0]

Put(f, k, v) == [x \in (DOMAIN f) \cup {k} |-> IF x = k THEN v ELSE f[x]]

Erase(f, k) == [x \in (DOMAIN f) \ {k} |-> f[x]]

Min(a, b) == IF a <= b THEN a ELSE b

Max(a, b) == IF a >= b THEN a ELSE b

Range(f) == {f[x] : x \in DOMAIN f}

(***************************************************************************)
(* Inputs.                                                                 *)
(***************************************************************************)
\* external ids a caller passes; "" asks insert to generate one
Ids == {"a", "b"}

\* the ids the single inserts are called with
InsertIds == {"a", ""}

\* vectors a caller passes: two of length 1, one of length 2
Vectors == {<<0>>, <<1>>, <<0, 1>>}

\* the (vector, metadata) pairs insert is called with
Payloads ==
    { [values |-> <<0>>, metadata |-> EmptyMap],
      [values |-> <<1>>, metadata |-> [type |-> "test"]],
      [values |-> <<0, 1>>, metadata |-> [type |-> "test"]] }

\* readings of the system clock, in microseconds since the epoch
NowValues == {255}

\* HNSWConfig{} as declared
DefaultHNSWConfig ==
    [M |-> 16, ef_construction |-> 200, ef_search |-> 50,
     max_elements |-> 1000000, metric |-> "Cosine"]

\* the (dimension, config) pairs an index is constructed with
IndexConfigs ==
    { [dimension |-> 1,
       config |-> [DefaultHNSWConfig EXCEPT !.max_elements = 2, !.metric = "Euclidean"]],
      [dimension |-> 2,
       config |-> [DefaultHNSWConfig EXCEPT !.max_elements = 1]] }

\* the path save and load are called with
IndexPaths == {"/tmp/test_hnsw.bin"}

MetaPath(path) == path \o ".meta"

(***************************************************************************)
(* Text conversions of generate_id: operator<< of an integer in decimal    *)
(* and in hexadecimal.                                                     *)
(***************************************************************************)
Digit(d) ==
    CASE d = 0 -> "0" [] d = 1 -> "1" [] d = 2 -> "2" [] d = 3 -> "3"
      [] d = 4 -> "4" [] d = 5 -> "5" [] d = 6 -> "6" [] d = 7 -> "7"
      [] d = 8 -> "8" [] d = 9 -> "9" [] d = 10 -> "a" [] d = 11 -> "b"
      [] d = 12 -> "c" [] d = 13 -> "d" [] d = 14 -> "e" [] d = 15 -> "f"

RECURSIVE ToBase(_, _)
ToBase(n, base) ==
    IF n < base THEN Digit(n) ELSE ToBase(n \div base, base) \o Digit(n % base)

(***************************************************************************)
(* The usearch primitive.                                                  *)
(***************************************************************************)
\* index_t::make followed by reserve(max_elements)
USearchMake(max_elements) == [vectors |-> EmptyMap, capacity |-> max_elements]

\* index_->add(key, vector): the result's error, left unconsumed, is raised
USearchAdd(us, key, vector) ==
    IF Cardinality(DOMAIN us.vectors) >= us.capacity
    THEN [ok |-> FALSE, error |-> "Reserve capacity ahead of insertions!", us |-> us]
    ELSE IF key \in DOMAIN us.vectors
    THEN [ok |-> FALSE, error |-> "Duplicate keys not allowed", us |-> us]
    ELSE [ok |-> TRUE, error |-> "",
          us |-> [us EXCEPT !.vectors = Put(@, key, vector)]]

\* index_->remove(key): a key that is not a member is left alone
USearchRemove(us, key) == [us EXCEPT !.vectors = Erase(@, key)]

RECURSIVE DotTo(_, _, _)
DotTo(a, b, n) == IF n = 0 THEN 0 ELSE DotTo(a, b, n - 1) + a[n] * b[n]

Dot(a, b) == DotTo(a, b, Min(Len(a), Len(b)))

RECURSIVE L2sqTo(_, _, _)
L2sqTo(a, b, n) ==
    IF n = 0 THEN 0 ELSE L2sqTo(a, b, n - 1) + (a[n] - b[n]) * (a[n] - b[n])

L2sq(a, b) == L2sqTo(a, b, Min(Len(a), Len(b)))

ISqrt(n) == CHOOSE r \in 0..n : r * r <= n /\ (r + 1) * (r + 1) > n

\* the metric the constructor selects: l2sq_k, ip_k or cos_k (cosine in
\* thousandths, the quotient rounded down)
Distance(metric, a, b) ==
    CASE metric = "Euclidean" -> L2sq(a, b)
      [] metric = "DotProduct" -> 1 - Dot(a, b)
      [] OTHER ->
           LET ab == Dot(a, b)
               a2 == Dot(a, a)
               b2 == Dot(b, b)
           IN IF a2 = 0 /\ b2 = 0 THEN 0
              ELSE IF a2 = 0 \/ b2 = 0 THEN 1000
              ELSE 1000 - ((1000 * ab) \div ISqrt(a2 * b2))

\* index_->search(query, wanted): every answer an approximate search may
\* give - at most `wanted` distinct members, nearest first
USearchSearch(us, metric, query, wanted) ==
    LET keys == DOMAIN us.vectors
        dist(key) == Distance(metric, query, us.vectors[key])
        seqs == UNION {[1..n -> keys] : n \in 0..Min(wanted, Cardinality(keys))}
        good(s) ==
            /\ \A i, j \in 1..Len(s) : i # j => s[i] # s[j]
            /\ \A i \in 1..Len(s) - 1 : dist(s[i]) <= dist(s[i + 1])
    IN {[i \in 1..Len(s) |-> [key |-> s[i], distance |-> dist(s[i])]] :
            s \in {t \in seqs : good(t)}}

(***************************************************************************)
(* HNSWIndex.  An operation yields the index after it and what the caller  *)
(* gets: a return value, or the exception's message.                       *)
(***************************************************************************)
Return(ix, value) == [ix |-> ix, ok |-> TRUE, ret |-> value, error |-> ""]

Throw(ix, message) == [ix |-> ix, ok |-> FALSE, ret |-> "", error |-> message]

\* HNSWIndex::HNSWIndex
NewIndex(dimension, config) ==
    [dimension |-> dimension,
     config |-> config,
     num_elements |-> 0,
     next_key |-> 1,
     data |-> EmptyMap,
     id_to_key |-> EmptyMap,
     us |-> USearchMake(config.max_elements)]

\* HNSWIndex::generate_id
generate_id(ix, now) == ToBase(now, 16) \o "-" \o ToBase(ix.next_key, 16)

VectorData(id, values, metadata) ==
    [id |-> id, values |-> values, metadata |-> metadata]

\* insert, had it stored the record without the caller's metadata
insert_without_metadata(ix, vector, id, metadata, now) ==
    IF Len(vector) # ix.dimension
    THEN Throw(ix, "Vector dimension mismatch")
    ELSE LET actual_id == IF id = "" THEN generate_id(ix, now) ELSE id IN
         IF actual_id \in DOMAIN ix.id_to_key
         THEN Throw(ix, "ID already exists: " \o actual_id)
         ELSE LET key == ix.next_key
                  ix1 == [ix EXCEPT !.next_key = key + 1]
                  added == USearchAdd(ix1.us, key, vector)
              IN IF ~added.ok
                 THEN Throw(ix1, added.error)
                 ELSE Return([ix1 EXCEPT
                                 !.us = added.us,
                                 !.data = Put(@, key, VectorData(actual_id, vector, EmptyMap)),
                                 !.id_to_key = Put(@, actual_id, key),
                                 !.num_elements = @ + 1],
                             actual_id)

\* insert, had it taken the key before looking for the id
insert_taking_key_first(ix, vector, id, metadata, now) ==
    IF Len(vector) # ix.dimension
    THEN Throw(ix, "Vector dimension mismatch")
    ELSE LET actual_id == IF id = "" THEN generate_id(ix, now) ELSE id
             key == ix.next_key
             ix1 == [ix EXCEPT !.next_key = key + 1]
         IN
         IF actual_id \in DOMAIN ix.id_to_key
         THEN Throw(ix1, "ID already exists: " \o actual_id)
         ELSE LET added == USearchAdd(ix1.us, key, vector)
              IN IF ~added.ok
                 THEN Throw(ix1, added.error)
                 ELSE Return([ix1 EXCEPT
                                 !.us = added.us,
                                 !.data = Put(@, key, VectorData(actual_id, vector, metadata)),
                                 !.id_to_key = Put(@, actual_id, key),
                                 !.num_elements = @ + 1],
                             actual_id)

\* HNSWIndex::insert
insert(ix, vector, id, metadata, now) ==
    IF Len(vector) # ix.dimension
    THEN Throw(ix, "Vector dimension mismatch")
    ELSE LET actual_id == IF id = "" THEN generate_id(ix, now) ELSE id IN
         IF actual_id \in DOMAIN ix.id_to_key
         THEN Throw(ix, "ID already exists: " \o actual_id)
         ELSE LET key == ix.next_key
                  ix1 == [ix EXCEPT !.next_key = key + 1]
                  added == USearchAdd(ix1.us, key, vector)
              IN IF ~added.ok
                 THEN Throw(ix1, added.error)
                 ELSE Return([ix1 EXCEPT
                                 !.us = added.us,
                                 !.data = Put(@, key, VectorData(actual_id, vector, metadata)),
                                 !.id_to_key = Put(@, actual_id, key),
                                 !.num_elements = @ + 1],
                             actual_id)

\* remove, had it only dropped the id from the id map
remove_leaving_record(ix, id) ==
    IF id \notin DOMAIN ix.id_to_key
    THEN Return(ix, FALSE)
    ELSE Return([ix EXCEPT
                    !.id_to_key = Erase(@, id),
                    !.num_elements = @ - 1],
                TRUE)

\* remove, had it left the id in the id map
remove_keeping_id(ix, id) ==
    IF id \notin DOMAIN ix.id_to_key
    THEN Return(ix, FALSE)
    ELSE LET key == ix.id_to_key[id] IN
         Return([ix EXCEPT
                    !.us = USearchRemove(@, key),
                    !.data = Erase(@, key),
                    !.num_elements = @ - 1],
                TRUE)

\* HNSWIndex::remove
remove(ix, id) ==
    IF id \notin DOMAIN ix.id_to_key
    THEN Return(ix, FALSE)
    ELSE LET key == ix.id_to_key[id] IN
         Return([ix EXCEPT
                    !.us = USearchRemove(@, key),
                    !.data = Erase(@, key),
                    !.id_to_key = Erase(@, id),
                    !.num_elements = @ - 1],
                TRUE)

\* a record pointer: the address of data_[key]'s value, or nullptr
NullPtr == [null |-> TRUE, key |-> 0]

PtrTo(key) == [null |-> FALSE, key |-> key]

\* the loop of HNSWIndex::search, had it put each result before the ones
\* already taken
RECURSIVE search_output_reversed(_, _, _)
search_output_reversed(ix, results, n) ==
    IF n = 0 THEN <<>>
    ELSE LET key == results[n].key
             rest == search_output_reversed(ix, results, n - 1)
         IN IF key \in DOMAIN ix.data
            THEN <<[id |-> ix.data[key].id,
                    distance |-> results[n].distance,
                    data |-> PtrTo(key)]>> \o rest
            ELSE rest

\* the loop of HNSWIndex::search, had it returned a key that has no payload
\* with a null record pointer
RECURSIVE search_output_keeping_all(_, _, _)
search_output_keeping_all(ix, results, n) ==
    IF n = 0 THEN <<>>
    ELSE LET key == results[n].key
             rest == search_output_keeping_all(ix, results, n - 1)
         IN IF key \in DOMAIN ix.data
            THEN Append(rest, [id |-> ix.data[key].id,
                               distance |-> results[n].distance,
                               data |-> PtrTo(key)])
            ELSE Append(rest, [id |-> "", distance |-> results[n].distance,
                               data |-> NullPtr])

\* the loop of HNSWIndex::search that turns the primitive's results into
\* HNSWResult values, dropping a key with no payload
RECURSIVE search_output(_, _, _)
search_output(ix, results, n) ==
    IF n = 0 THEN <<>>
    ELSE LET key == results[n].key
             rest == search_output(ix, results, n - 1)
         IN IF key \in DOMAIN ix.data
            THEN Append(rest, [id |-> ix.data[key].id,
                               distance |-> results[n].distance,
                               data |-> PtrTo(key)])
            ELSE rest

\* the k handed to the primitive, had it been the element count alone
actual_k_ignoring_k(ix, k) == ix.num_elements

\* the k handed to the primitive
actual_k(ix, k) == Min(k, ix.num_elements)

\* the ef arguments search is called with: none (the default 0), the
\* configured ef_search and a larger one
EfValues == {0, DefaultHNSWConfig.ef_search, 2 * DefaultHNSWConfig.ef_search}

\* the candidate-list size the primitive searches with when search is
\* called with k and ef on a non-empty index: index_->search is handed the
\* query and actual_k and nothing else, so the primitive uses the
\* expansion_search it was constructed with, raised to the wanted count
search_expansion(ix, k, ef) == Max(ix.config.ef_search, actual_k(ix, k))

\* search, had it drawn a key from the counter for each query it answers
search_taking_key(ix, query, k) ==
    IF Len(query) # ix.dimension
    THEN {Throw(ix, "Query dimension mismatch")}
    ELSE {Return([ix EXCEPT !.next_key = @ + 1],
                 search_output(ix, results, Len(results))) :
            results \in USearchSearch(ix.us, ix.config.metric, query, actual_k(ix, k))}

\* HNSWIndex::search: the outcomes it may have
search(ix, query, k) ==
    IF Len(query) # ix.dimension
    THEN {Throw(ix, "Query dimension mismatch")}
    ELSE IF ix.num_elements = 0
    THEN {Return(ix, <<>>)}
    ELSE {Return(ix, search_output(ix, results, Len(results))) :
            results \in USearchSearch(ix.us, ix.config.metric, query, actual_k(ix, k))}

\* the loop of HNSWIndex::batch_search for at most 100 queries: search is
\* called once per query, in order, and what it throws ends the call
RECURSIVE batch_search_loop(_, _, _, _)
batch_search_loop(ix, queries, k, n) ==
    IF n = 0 THEN {Return(ix, <<>>)}
    ELSE UNION {IF ~before.ok THEN {before}
                ELSE {IF r.ok THEN Return(ix, Append(before.ret, r.ret)) ELSE r :
                        r \in search(ix, queries[n], k)} :
                before \in batch_search_loop(ix, queries, k, n - 1)}

\* HNSWIndex::batch_search
batch_search(ix, queries, k) == batch_search_loop(ix, queries, k, Len(queries))

\* HNSWIndex::get
get(ix, id) ==
    IF id \notin DOMAIN ix.id_to_key
    THEN NullPtr
    ELSE IF ix.id_to_key[id] \notin DOMAIN ix.data
    THEN NullPtr
    ELSE PtrTo(ix.id_to_key[id])

\* HNSWIndex::size
size(ix) == ix.num_elements

(***************************************************************************)
(* Files.  A graph file holds what the primitive serialises; the sidecar   *)
(* (path + ".meta") holds the framed payload records.                      *)
(***************************************************************************)
NoFile == [exists |-> FALSE]

\* the records of data_ as the sidecar frames them, in ascending key order
RECURSIVE FrameRecords(_, _)
FrameRecords(data, keys) ==
    IF keys = {} THEN <<>>
    ELSE LET key == CHOOSE k \in keys : \A other \in keys : k <= other IN
         <<[key |-> key,
            id |-> data[key].id,
            values |-> data[key].values,
            metadata |-> data[key].metadata]>>
         \o FrameRecords(data, keys \ {key})

\* what index_->save writes; a file that is not intact is one index_->load
\* cannot decode
GraphFile(ix) ==
    [exists |-> TRUE, kind |-> "graph", intact |-> TRUE, vectors |-> ix.us.vectors]

\* what HNSWIndex::save writes to the sidecar.  throws_at is 0 for a file
\* that reads to its end; for a file cut short it is the record at which
\* the unchecked reads make load throw
MetaFile(ix) ==
    [exists |-> TRUE, kind |-> "meta", throws_at |-> 0,
     num |-> Cardinality(DOMAIN ix.data),
     next_key |-> ix.next_key,
     records |-> FrameRecords(ix.data, DOMAIN ix.data)]

\* save, had it written the graph file alone
save_without_sidecar(ix, dsk, path) == [dsk EXCEPT ![path] = GraphFile(ix)]

\* HNSWIndex::save: the disk after it (both files are written, it returns true)
save(ix, dsk, path) ==
    [dsk EXCEPT ![path] = GraphFile(ix), ![MetaPath(path)] = MetaFile(ix)]

\* the record loop of HNSWIndex::load
RECURSIVE load_records(_, _, _)
load_records(ix, records, n) ==
    IF n = 0 THEN ix
    ELSE LET before == load_records(ix, records, n - 1)
             r == records[n]
         IN [before EXCEPT
                !.id_to_key = Put(@, r.id, r.key),
                !.data = Put(@, r.key, VectorData(r.id, r.values, r.metadata))]

\* index_->load: the members of the file replace the members held.  The
\* capacity afterwards is the file's member count or, when the primitive
\* keeps a larger reservation, the capacity held before: usearch releases
\* differ, so both are outcomes (keep_reservation picks one)
USearchLoad(us, file, keep_reservation) ==
    LET n == Cardinality(DOMAIN file.vectors) IN
    [vectors |-> file.vectors,
     capacity |-> IF keep_reservation THEN Max(us.capacity, n) ELSE n]

\* load, had it left the key counter alone
load_keeping_counter(ix, dsk, path, keep_reservation) ==
    IF ~dsk[path].exists
    THEN Return(ix, FALSE)
    ELSE LET ix1 == [ix EXCEPT !.us = USearchLoad(@, dsk[path], keep_reservation)]
             meta == dsk[MetaPath(path)]
         IN IF ~meta.exists
            THEN Return(ix1, FALSE)
            ELSE LET ix2 == [ix1 EXCEPT !.data = EmptyMap,
                                        !.id_to_key = EmptyMap]
                 IN IF meta.throws_at > 0
                    THEN Return(load_records(ix2, meta.records, meta.throws_at - 1), FALSE)
                    ELSE LET ix3 == load_records(ix2, meta.records, meta.num) IN
                         Return([ix3 EXCEPT !.num_elements = Cardinality(DOMAIN ix3.data)],
                                TRUE)

\* HNSWIndex::load
load(ix, dsk, path, keep_reservation) ==
    IF ~dsk[path].exists \/ ~dsk[path].intact
    THEN Return(ix, FALSE)
    ELSE LET ix1 == [ix EXCEPT !.us = USearchLoad(@, dsk[path], keep_reservation)]
             meta == dsk[MetaPath(path)]
         IN IF ~meta.exists
            THEN Return(ix1, FALSE)
            ELSE LET ix2 == [ix1 EXCEPT !.next_key = meta.next_key,
                                        !.data = EmptyMap,
                                        !.id_to_key = EmptyMap]
                 IN IF meta.throws_at > 0
                    THEN Return(load_records(ix2, meta.records, meta.throws_at - 1), FALSE)
                    ELSE LET ix3 == load_records(ix2, meta.records, meta.num) IN
                         Return([ix3 EXCEPT !.num_elements = Cardinality(DOMAIN ix3.data)],
                                TRUE)

\* the loop of HNSWIndex::batch_insert when no other thread comes between
\* its records: the index after n records and the count so far
RECURSIVE batch_insert_loop(_, _, _, _)
batch_insert_loop(ix, vectors, n, now) ==
    IF n = 0 THEN Return(ix, 0)
    ELSE LET before == batch_insert_loop(ix, vectors, n - 1, now)
             v == vectors[n]
             r == insert(before.ix, v.values, v.id, v.metadata, now)
         IN Return(r.ix, IF r.ok THEN before.ret + 1 ELSE before.ret)

\* HNSWIndex::batch_insert, uninterrupted
batch_insert(ix, vectors, now) == batch_insert_loop(ix, vectors, Len(vectors), now)

\* sum of f over the keys of a map
RECURSIVE SumOver(_, _)
SumOver(f, keys) ==
    IF keys = {} THEN 0
    ELSE LET k == CHOOSE x \in keys : TRUE IN f[k] + SumOver(f, keys \ {k})

\* HNSWIndex::memory_usage: the payload's share, a string or vector counted
\* at its length (the primitive's own figure and the containers' slack are
\* not functions of this state and are left out)
memory_usage(ix) ==
    LET meta_bytes(m) == SumOver([k \in DOMAIN m |-> Len(k) + Len(m[k])], DOMAIN m)
        bytes == [key \in DOMAIN ix.data |->
                    8 + Len(ix.data[key].id) + 4 * Len(ix.data[key].values)
                      + meta_bytes(ix.data[key].metadata)]
    IN SumOver(bytes, DOMAIN ix.data)

(***************************************************************************)
(* VectorStorage: the collections by name, their configurations, and the   *)
(* files of the data directory.  An operation yields the storage after it, *)
(* the disk after it where it writes, and what the caller gets.            *)
(***************************************************************************)
\* the collection names callers use
CollectionNames == {"docs", "imgs"}

DataDir == "./data"

\* VectorStorage::collection_path
collection_path(name) == DataDir \o "/" \o name \o ".hnsw"

\* VectorStorage::config_path
config_path(name) == DataDir \o "/" \o name \o ".json"

\* static_cast<int>(metric)
MetricInt(metric) ==
    CASE metric = "Euclidean" -> 0 [] metric = "Cosine" -> 1 [] metric = "DotProduct" -> 2

\* the text VectorStorage::save_config writes: each value as operator<<
\* prints it (max_elements is not among them)
ConfigFile(config) ==
    [exists |-> TRUE, kind |-> "json",
     name |-> config.name,
     dimension |-> ToBase(config.dimension, 10),
     metric |-> ToBase(MetricInt(config.metric), 10),
     M |-> ToBase(config.hnsw_config.M, 10),
     ef_construction |-> ToBase(config.hnsw_config.ef_construction, 10),
     ef_search |-> ToBase(config.hnsw_config.ef_search, 10)]

\* VectorStorage::save_config: the disk after it
save_config(st, dsk, name) ==
    IF name \notin DOMAIN st.configs THEN dsk
    ELSE [dsk EXCEPT ![config_path(name)] = ConfigFile(st.configs[name])]

Done(st, dsk, value) == [st |-> st, dsk |-> dsk, ret |-> value]

\* create_collection, had it replaced a collection of the same name
create_collection_replacing(st, dsk, config) ==
    LET st1 == [st EXCEPT
                   !.collections = Put(@, config.name,
                                       NewIndex(config.dimension, config.hnsw_config)),
                   !.configs = Put(@, config.name, config)]
    IN Done(st1, save_config(st1, dsk, config.name), TRUE)

\* VectorStorage::create_collection
create_collection(st, dsk, config) ==
    IF config.name \in DOMAIN st.collections
    THEN Done(st, dsk, FALSE)
    ELSE LET st1 == [st EXCEPT
                        !.collections = Put(@, config.name,
                                            NewIndex(config.dimension, config.hnsw_config)),
                        !.configs = Put(@, config.name, config)]
         IN Done(st1, save_config(st1, dsk, config.name), TRUE)

\* VectorStorage::delete_collection: the graph file and the configuration
\* file are removed, the sidecar is not
delete_collection(st, dsk, name) ==
    IF name \notin DOMAIN st.collections
    THEN Done(st, dsk, FALSE)
    ELSE Done([st EXCEPT !.collections = Erase(@, name), !.configs = Erase(@, name)],
              [dsk EXCEPT ![collection_path(name)] = NoFile,
                          ![config_path(name)] = NoFile],
              TRUE)

\* VectorStorage::list_collections: the names, in no particular order
list_collections(st) == DOMAIN st.collections

\* VectorStorage::collection_exists
collection_exists(st, name) == name \in DOMAIN st.collections

NoStats == [has_value |-> FALSE]

\* VectorStorage::get_stats
get_stats(st, name) ==
    IF name \notin DOMAIN st.collections THEN NoStats
    ELSE LET ix == st.collections[name]
             config == st.configs[name]
         IN [has_value |-> TRUE,
             vector_count |-> size(ix),
             memory_usage |-> memory_usage(ix),
             dimension |-> ix.dimension,
             metric |-> CASE config.metric = "Euclidean" -> "euclidean"
                          [] config.metric = "Cosine" -> "cosine"
                          [] config.metric = "DotProduct" -> "dot_product"]

\* the outcome r of an index operation, as the outcome of the storage
\* operation that passed the call on
Passed(st, collection, r) ==
    [r EXCEPT !.ix = [st EXCEPT !.collections[collection] = r.ix]]

\* VectorStorage::insert
storage_insert(st, collection, vector, id, metadata, now) ==
    IF collection \notin DOMAIN st.collections
    THEN Throw(st, "Collection not found: " \o collection)
    ELSE Passed(st, collection, insert(st.collections[collection], vector, id, metadata, now))

\* VectorStorage::batch_insert
storage_batch_insert(st, collection, vectors, now) ==
    IF collection \notin DOMAIN st.collections
    THEN Throw(st, "Collection not found: " \o collection)
    ELSE Passed(st, collection, batch_insert(st.collections[collection], vectors, now))

\* VectorStorage::remove
storage_remove(st, collection, id) ==
    IF collection \notin DOMAIN st.collections
    THEN Return(st, FALSE)
    ELSE Passed(st, collection, remove(st.collections[collection], id))

\* what handle_request answers: the HTTP status and the id in the body
Response(st, status, id, removed) ==
    [st |-> st, status |-> status, id |-> id, removed |-> removed]

\* handle_update_vector, had it inserted whether or not the id was found
handle_update_vector_upserting(st, collection, id, values, metadata, now) ==
    LET rm == storage_remove(st, collection, id)
        ins == storage_insert(rm.ix, collection, values, id, metadata, now)
    IN IF ins.ok THEN Response(ins.ix, 200, ins.ret, rm.ret)
       ELSE Response(ins.ix, 500, "", rm.ret)

\* HTTPServer::handle_update_vector, called by handle_request on
\* PUT /vectors/<collection>/<id>; values and metadata are what the body
\* parses to.  An exception of the insert leaves the handler after the
\* remove and handle_request answers it with status 500.
handle_update_vector(st, collection, id, values, metadata, now) ==
    LET rm == storage_remove(st, collection, id) IN
    IF ~rm.ret
    THEN Response(rm.ix, 404, "", FALSE)
    ELSE LET ins == storage_insert(rm.ix, collection, values, id, metadata, now) IN
         IF ins.ok THEN Response(ins.ix, 200, ins.ret, TRUE)
         ELSE Response(ins.ix, 500, "", TRUE)

\* VectorStorage::search: the outcomes it may have
storage_search(st, collection, query, k) ==
    IF collection \notin DOMAIN st.collections
    THEN {Throw(st, "Collection not found: " \o collection)}
    ELSE {Passed(st, collection, r) : r \in search(st.collections[collection], query, k)}

\* VectorStorage::batch_search: the outcomes it may have
storage_batch_search(st, collection, queries, k) ==
    IF collection \notin DOMAIN st.collections
    THEN {Throw(st, "Collection not found: " \o collection)}
    ELSE {Passed(st, collection, r) :
            r \in batch_search(st.collections[collection], queries, k)}

\* VectorStorage::get
storage_get(st, collection, id) ==
    IF collection \notin DOMAIN st.collections
    THEN NullPtr
    ELSE get(st.collections[collection], id)

\* VectorStorage::save_collection: the disk after it
save_collection(st, dsk, name) ==
    IF name \notin DOMAIN st.collections THEN dsk
    ELSE save(st.collections[name], dsk, collection_path(name))

\* the loop of VectorStorage::save_all over the collections in names
RECURSIVE save_all_loop(_, _, _)
save_all_loop(st, dsk, names) ==
    IF names = {} THEN dsk
    ELSE LET name == CHOOSE n \in names : TRUE IN
         save_all_loop(st, save_config(st, save_collection(st, dsk, name), name),
                       names \ {name})

\* save_all, had it written the configurations only
save_all_configs_only(st, dsk) ==
    [p \in DOMAIN dsk |->
        IF \E n \in DOMAIN st.configs : p = config_path(n)
        THEN save_config(st, dsk, CHOOSE n \in DOMAIN st.configs : p = config_path(n))[p]
        ELSE dsk[p]]

\* VectorStorage::save_all: the disk after it
save_all(st, dsk) == save_all_loop(st, dsk, DOMAIN st.collections)

\* the largest number the configuration texts are decoded to
MaxParsed == 200

\* the number each decimal text stands for, up to MaxParsed
DecimalValue ==
    [text \in {ToBase(n, 10) : n \in 0..MaxParsed} |->
        CHOOSE n \in 0..MaxParsed : ToBase(n, 10) = text]

\* std::stoi can decode the text
Decodable(text) == text \in DOMAIN DecimalValue

\* std::stoi
stoi(text) == DecimalValue[text]

\* extract_int of VectorStorage::load_config: 0 when the key is not in
\* the text
extract_int(file, key) == IF key \notin DOMAIN file THEN 0 ELSE stoi(file[key])

\* static_cast<DistanceMetric>(n)
MetricOf(n) ==
    CASE n = 0 -> "Euclidean" [] n = 1 -> "Cosine" [] n = 2 -> "DotProduct"
      [] OTHER -> "Unnamed"

ConfigKeys == {"dimension", "metric", "M", "ef_construction", "ef_search"}

\* VectorStorage::load_config: what std::stoi throws is not caught
load_config(st, dsk, name) ==
    LET file == dsk[config_path(name)] IN
    IF ~file.exists THEN Return(st, FALSE)
    ELSE IF \E key \in ConfigKeys \cap DOMAIN file : ~Decodable(file[key])
    THEN Throw(st, "stoi")
    ELSE LET metric == MetricOf(extract_int(file, "metric"))
             config ==
                 [name |-> name,
                  dimension |-> extract_int(file, "dimension"),
                  metric |-> metric,
                  hnsw_config |->
                      [DefaultHNSWConfig EXCEPT
                          !.M = extract_int(file, "M"),
                          !.ef_construction = extract_int(file, "ef_construction"),
                          !.ef_search = extract_int(file, "ef_search"),
                          !.metric = metric]]
         IN Return([st EXCEPT !.configs = Put(@, name, config)], TRUE)

\* VectorStorage::load_collection
load_collection(st, dsk, name, keep_reservation) ==
    LET c == load_config(st, dsk, name) IN
    IF ~c.ok THEN c
    ELSE IF ~c.ret THEN Return(st, FALSE)
    ELSE LET config == c.ix.configs[name]
             index_ == NewIndex(config.dimension, config.hnsw_config)
             r == load(index_, dsk, collection_path(name), keep_reservation)
         IN IF ~r.ret THEN Return(c.ix, FALSE)
            ELSE Return([c.ix EXCEPT !.collections = Put(@, name, r.ix)], TRUE)

\* the loop of VectorStorage::load_all over the .json entries of the data
\* directory (the directory is listed in no particular order; the
\* collections are independent of each other, and an exception ends the
\* loop whatever the order)
RECURSIVE load_all_loop(_, _, _, _)
load_all_loop(st, dsk, names, keep_reservation) ==
    IF names = {} THEN Return(st, TRUE)
    ELSE LET name == CHOOSE n \in names : TRUE
             r == IF dsk[collection_path(name)].exists
                  THEN load_collection(st, dsk, name, keep_reservation)
                  ELSE Return(st, TRUE)
         IN IF ~r.ok THEN r
            ELSE load_all_loop(r.ix, dsk, names \ {name}, keep_reservation)

\* make_collection_name
make_collection_name(tenant_id, ns) == tenant_id \o "__" \o ns

Tenants == {"t"}

Namespaces == {"n"}

\* the names a .json file of the data directory can have: those of the
\* collections and those of the namespaces
StoredNames ==
    CollectionNames \cup {make_collection_name(t, n) : t \in Tenants, n \in Namespaces}

\* VectorStorage::load_all
load_all(st, dsk, keep_reservation) ==
    load_all_loop(st, dsk,
                  {n \in StoredNames :
                      config_path(n) \in DOMAIN dsk /\ dsk[config_path(n)].exists},
                  keep_reservation)

\* VectorStorage::VectorStorage on the data directory as dsk has it
OpenStorage(dsk, keep_reservation) ==
    load_all([data_dir |-> DataDir, collections |-> EmptyMap, configs |-> EmptyMap],
             dsk, keep_reservation)

(***************************************************************************)
(* State.                                                                  *)
(***************************************************************************)
VARIABLES
    index,      \* the HNSWIndex object in use
    disk,       \* path -> file
    batch,      \* the batch_insert call in progress, or the last one's result
    last,       \* the step taken last: the call, the id it was about and
                \* whether it succeeded
    assigned,   \* keys that inserts on this index object were given
    fresh,      \* keys that inserts were given since construction or load
    storage,    \* the VectorStorage object: collections_ and configs_
    process,    \* the host process: where main stands, its servers and
                \* the signal handler
    callers     \* the threads calling into one object at once: where each
                \* stands, and who holds mutex_ of the manager and of each index

vars == <<index, disk, batch, last, assigned, fresh, storage, process, callers>>

\* the configurations create_collection is called with
CollectionConfigs ==
    { [name |-> "docs", dimension |-> 1, metric |-> "Euclidean",
       hnsw_config |-> [DefaultHNSWConfig EXCEPT !.metric = "Euclidean",
                                                 !.max_elements = 2]],
      [name |-> "docs", dimension |-> 2, metric |-> "Cosine",
       hnsw_config |-> DefaultHNSWConfig],
      [name |-> "imgs", dimension |-> 2, metric |-> "Cosine",
       hnsw_config |-> DefaultHNSWConfig] }

StoragePaths ==
    UNION {{collection_path(n), MetaPath(collection_path(n)), config_path(n)} :
             n \in CollectionNames}

AllPaths == IndexPaths \cup {MetaPath(p) : p \in IndexPaths} \cup StoragePaths

\* VectorStorage::VectorStorage on a data directory with no files in it
NewStorage == [data_dir |-> DataDir, collections |-> EmptyMap, configs |-> EmptyMap]

\* no host process: the object is used as a library
NoProcess == [pc |-> "none"]

\* one caller at a time: no thread is inside the object between two steps
NoCallers == [t |-> <<>>]

NoBatch == [active |-> FALSE, vectors |-> <<>>, i |-> 0, count |-> 0, grown |-> 0]

Called(op, id, ok) == [op |-> op, id |-> id, ok |-> ok, error |-> ""]

\* a call that threw: the message of the exception is kept
Outcome(op, id, r) ==
    [op |-> op, id |-> IF r.ok THEN r.ret ELSE id, ok |-> r.ok, error |-> r.error]

InitIndex ==
    /\ \E c \in IndexConfigs : index = NewIndex(c.dimension, c.config)
    /\ disk = [p \in AllPaths |-> NoFile]
    /\ batch = NoBatch
    /\ last = Called("construct", "", TRUE)
    /\ assigned = {}
    /\ fresh = {}
    /\ storage = NewStorage
    /\ process = NoProcess
    /\ callers = NoCallers

\* a further index object is constructed and used from here on
Construct(c) ==
    /\ ~batch.active
    /\ index' = NewIndex(c.dimension, c.config)
    /\ last' = Called("construct", "", TRUE)
    /\ batch' = NoBatch
    /\ assigned' = {}
    /\ fresh' = {}
    /\ UNCHANGED <<disk, storage, process, callers>>

\* the key a successful insert gave its record
NewKeys(r) == IF r.ok THEN {r.ix.id_to_key[r.ret]} ELSE {}

Insert(vector, id, metadata, now) ==
    /\ index.next_key <= MaxKey
    /\ LET r == insert(index, vector, id, metadata, now) IN
        /\ index' = r.ix
        /\ last' = Outcome("insert", id, r)
        /\ assigned' = assigned \cup NewKeys(r)
        /\ fresh' = fresh \cup NewKeys(r)
    /\ UNCHANGED <<disk, batch, storage, process, callers>>

\* HNSWIndex::batch_insert is entered; an empty batch returns at once
BatchStart(vectors) ==
    /\ ~batch.active
    /\ batch' = [active |-> Len(vectors) > 0, vectors |-> vectors,
                 i |-> 1, count |-> 0, grown |-> 0]
    /\ last' = Called("batch_insert", "", TRUE)
    /\ UNCHANGED <<index, disk, assigned, fresh, storage, process, callers>>

\* the turn of the loop, had it counted every record
BatchStep_counting_all(now) ==
    /\ batch.active
    /\ index.next_key <= MaxKey
    /\ LET v == batch.vectors[batch.i]
           r == insert(index, v.values, v.id, v.metadata, now)
       IN
        /\ index' = r.ix
        /\ batch' = [batch EXCEPT
                        !.active = batch.i < Len(batch.vectors),
                        !.i = @ + 1,
                        !.count = @ + 1,
                        !.grown = @ + (size(r.ix) - size(index))]
        /\ last' = Outcome("batch_record", v.id, r)
        /\ assigned' = assigned \cup NewKeys(r)
        /\ fresh' = fresh \cup NewKeys(r)
    /\ UNCHANGED <<disk, storage, process, callers>>

\* one turn of the loop of HNSWIndex::batch_insert: insert, with whatever it
\* throws swallowed; after the last record the call returns count
BatchStep(now) ==
    /\ batch.active
    /\ index.next_key <= MaxKey
    /\ LET v == batch.vectors[batch.i]
           r == insert(index, v.values, v.id, v.metadata, now)
       IN
        /\ index' = r.ix
        /\ batch' = [batch EXCEPT
                        !.active = batch.i < Len(batch.vectors),
                        !.i = @ + 1,
                        !.count = IF r.ok THEN @ + 1 ELSE @,
                        !.grown = @ + (size(r.ix) - size(index))]
        /\ last' = Outcome("batch_record", v.id, r)
        /\ assigned' = assigned \cup NewKeys(r)
        /\ fresh' = fresh \cup NewKeys(r)
    /\ UNCHANGED <<disk, storage, process, callers>>

Remove(id) ==
    /\ LET r == remove(index, id) IN
        /\ index' = r.ix
        /\ last' = Called("remove", id, r.ret)
    /\ UNCHANGED <<disk, batch, assigned, fresh, storage, process, callers>>

Search(query, k) ==
    /\ \E r \in search(index, query, k) :
        /\ index' = r.ix
        /\ last' = Called("search", "", r.ok)
    /\ UNCHANGED <<disk, batch, assigned, fresh, storage, process, callers>>

\* the queries are searched one after the other; the index model takes the
\* whole call as one step
BatchSearch(queries, k) ==
    /\ \E r \in batch_search(index, queries, k) :
        /\ index' = r.ix
        /\ last' = Called("batch_search", "", r.ok)
    /\ UNCHANGED <<disk, batch, assigned, fresh, storage, process, callers>>

Get(id) ==
    /\ last' = Called("get", id, ~get(index, id).null)
    /\ UNCHANGED <<index, disk, batch, assigned, fresh, storage, process, callers>>

Save(path) ==
    /\ disk' = save(index, disk, path)
    /\ last' = Called("save", "", TRUE)
    /\ UNCHANGED <<index, batch, assigned, fresh, storage, process, callers>>

Load(path, keep_reservation) ==
    /\ LET r == load(index, disk, path, keep_reservation) IN
        /\ index' = r.ix
        /\ last' = Called("load", "", r.ret)
        /\ fresh' = IF r.ret THEN {} ELSE fresh
    /\ UNCHANGED <<disk, batch, assigned, storage, process, callers>>

\* ids a caller may name: the ones it chose and the ones insert returned
KnownIds == Ids \cup DOMAIN index.id_to_key

(***************************************************************************)
(* SpecIndex: index objects used through the HNSWIndex interface, one call *)
(* at a time or from several threads (each call is atomic under the lock), *)
(* saved to and loaded from a file, with further index objects of either   *)
(* configuration constructed along the way.                                *)
(***************************************************************************)
\* the query lists batch_search is called with
QueryBatches == {<<>>, <<<<0>>, <<1>>>>, <<<<0, 1>>>>, <<<<1>>, <<0, 1>>>>}

NextIndex ==
    \/ \E c \in IndexConfigs : Construct(c)
    \/ \E p \in Payloads, id \in InsertIds, now \in NowValues :
          Insert(p.values, id, p.metadata, now)
    \/ \E id \in KnownIds : Remove(id)
    \/ \E q \in Vectors, k \in 1..MaxK : Search(q, k)
    \/ \E qs \in QueryBatches, k \in 1..MaxK : BatchSearch(qs, k)
    \/ \E id \in KnownIds : Get(id)
    \/ \E p \in IndexPaths : Save(p)
    \/ \E p \in IndexPaths, keep \in BOOLEAN : Load(p, keep)

SpecIndex == InitIndex /\ [][NextIndex]_vars

(***************************************************************************)
(* SpecBatch: one index object on which batch_insert calls run record by   *)
(* record while other threads insert, remove, save and load.               *)
(***************************************************************************)
\* the records batch_insert is called with
BatchRecords ==
    { VectorData("a", <<0>>, EmptyMap),
      VectorData("b", <<1>>, [type |-> "test"]),
      VectorData("", <<0, 1>>, [type |-> "test"]),
      VectorData("b", <<0, 1>>, EmptyMap) }

Batches == UNION {[1..n -> BatchRecords] : n \in 0..MaxBatch}

NextBatch ==
    \/ \E vs \in Batches : BatchStart(vs)
    \/ \E now \in NowValues : BatchStep(now)
    \/ \E p \in Payloads, now \in NowValues : Insert(p.values, "a", p.metadata, now)
    \/ \E id \in KnownIds : Remove(id)
    \/ \E p \in IndexPaths : Save(p)
    \/ \E p \in IndexPaths, keep \in BOOLEAN : Load(p, keep)

SpecBatch == InitIndex /\ [][NextBatch]_vars

(***************************************************************************)
(* SpecWorkers: batch_search calls of more than 100 queries on one index   *)
(* object.  The calling thread starts the worker tasks, the tasks run      *)
(* beside it and it waits for them; inserts and removes happen between the *)
(* calls only, none while a call is in progress.                           *)
(***************************************************************************)
\* the batch size up to which batch_search runs the queries itself
SequentialLimit == 100

\* the queries a worker task is started for
QueriesPerThread == 100

\* the cap on the worker tasks
ThreadCap == 32

\* the hardware threads explored
MaxHardware == 2

\* std::thread::hardware_concurrency(): the number of hardware threads, 0
\* when the platform cannot tell
HardwareConcurrency == 0..MaxHardware

\* num_threads of batch_search
num_threads(num_queries, hardware) ==
    Min(Min(hardware, Max(1, num_queries \div QueriesPerThread)), ThreadCap)

\* chunk_size of batch_search, defined for threads > 0
chunk_size(num_queries, threads) == (num_queries + threads - 1) \div threads

\* the task started at turn t of the loop: its range of indices and where
\* it stands
Worker(t, chunk, num_queries) ==
    [start_idx |-> t * chunk,
     end_idx |-> Min(t * chunk + chunk, num_queries),
     state |-> "running"]

\* the futures the loop leaves: one per turn, until a turn's start_idx is
\* past the queries
Futures(num_queries, threads, chunk) ==
    LET started == {t \in 0..threads - 1 :
                        \A u \in 0..t : u * chunk < num_queries}
    IN [j \in 1..Cardinality(started) |-> Worker(j - 1, chunk, num_queries)]

\* the lists search may return for the query; none when it throws
SearchAnswers(ix, query, k) == {r.ret : r \in {o \in search(ix, query, k) : o.ok}}

\* search throws on the query
SearchThrows(ix, query, k) == \E r \in search(ix, query, k) : ~r.ok

\* the results vector as constructed: num_queries empty lists.  A slot holds
\* the lists that may stand in it.
EmptyResults(num_queries) == [i \in 1..num_queries |-> {<<>>}]

\* what the caller of batch_search gets
BatchAnswer(ok, error, queries, k, hardware, results) ==
    [op |-> "batch_search", id |-> "", ok |-> ok, error |-> error,
     queries |-> queries, k |-> k, hardware |-> hardware, results |-> results]

\* batch_search is entered with more than 100 queries and starts its worker
\* tasks.  With no hardware thread reported num_threads is 0 and chunk_size
\* divides by it: the process is killed by the trap, or the division yields
\* some value, the loop over num_threads does not run and the results are
\* returned as constructed.
ParallelStart(queries, k, hardware) ==
    /\ ~batch.active
    /\ Len(queries) > SequentialLimit
    /\ LET n == Len(queries)
           threads == num_threads(n, hardware)
       IN IF threads = 0
          THEN \/ /\ batch' = [active |-> TRUE, phase |-> "killed", queries |-> queries,
                               k |-> k, hardware |-> hardware, futures |-> <<>>,
                               results |-> EmptyResults(n), got |-> 0]
                  /\ last' = Called("killed", "", FALSE)
               \/ /\ batch' = NoBatch
                  /\ last' = BatchAnswer(TRUE, "", queries, k, hardware, EmptyResults(n))
          ELSE /\ batch' = [active |-> TRUE, phase |-> "joining", queries |-> queries,
                            k |-> k, hardware |-> hardware,
                            futures |-> Futures(n, threads, chunk_size(n, threads)),
                            results |-> EmptyResults(n), got |-> 0]
               /\ last' = Called("batch_search_start", "", TRUE)
    /\ UNCHANGED <<index, disk, assigned, fresh, storage, process, callers>>

\* the indices of its range a task gets through: up to the first query
\* search throws on
Searched(ix, queries, k, w) ==
    LET range == w.start_idx..w.end_idx - 1
        throwing == {q \in Range(queries) : SearchThrows(ix, q, k)}
        thrown == {j \in range : queries[j + 1] \in throwing}
    IN {i \in range : \A j \in thrown : i < j}

\* a worker task runs: search for each index of its range, the result put
\* in the slot of that index; what search throws ends the task and is kept
\* in its future
WorkerRun(t) ==
    /\ batch.active
    /\ batch.phase \in {"joining", "unwinding"}
    /\ t \in DOMAIN batch.futures
    /\ batch.futures[t].state = "running"
    /\ LET w == batch.futures[t]
           done == Searched(index, batch.queries, batch.k, w)
           all == Cardinality(done) = w.end_idx - w.start_idx
           answers == {<<q, SearchAnswers(index, q, batch.k)>> : q \in Range(batch.queries)}
           answer(q) == (CHOOSE a \in answers : a[1] = q)[2]
       IN /\ batch' = [batch EXCEPT
                !.futures[t].state = IF all THEN "done" ELSE "threw",
                !.results = [i \in DOMAIN @ |->
                                IF i - 1 \in done THEN answer(batch.queries[i]) ELSE @[i]]]
          /\ last' = Called("worker", "", all)
    /\ UNCHANGED <<index, disk, assigned, fresh, storage, process, callers>>

\* f.get() on the next future: it waits for the task, and rethrows what the
\* task threw; the exception leaves batch_search through the destructors of
\* the futures
Join ==
    /\ batch.active
    /\ batch.phase = "joining"
    /\ batch.got < Len(batch.futures)
    /\ batch.futures[batch.got + 1].state # "running"
    /\ batch' = IF batch.futures[batch.got + 1].state = "threw"
                THEN [batch EXCEPT !.phase = "unwinding"]
                ELSE [batch EXCEPT !.got = @ + 1]
    /\ last' = Called("join", "", batch.futures[batch.got + 1].state = "done")
    /\ UNCHANGED <<index, disk, assigned, fresh, storage, process, callers>>

\* every future was waited for: batch_search returns the results
ParallelReturn ==
    /\ batch.active
    /\ batch.phase = "joining"
    /\ batch.got = Len(batch.futures)
    /\ last' = BatchAnswer(TRUE, "", batch.queries, batch.k, batch.hardware, batch.results)
    /\ batch' = NoBatch
    /\ UNCHANGED <<index, disk, assigned, fresh, storage, process, callers>>

\* the destructor of a future that std::async returned waits for its task:
\* the exception reaches the caller when every task has ended
ParallelThrow ==
    /\ batch.active
    /\ batch.phase = "unwinding"
    /\ \A t \in DOMAIN batch.futures : batch.futures[t].state # "running"
    /\ last' = BatchAnswer(FALSE, "Query dimension mismatch", batch.queries, batch.k,
                           batch.hardware, <<>>)
    /\ batch' = NoBatch
    /\ UNCHANGED <<index, disk, assigned, fresh, storage, process, callers>>

\* the lengths of the long query lists
LongLengths == {101, 201}

\* the long query lists: one query repeated, another one at one place or
\* at none
LongBatches ==
    {[i \in 1..n |-> IF i = at THEN other ELSE q] :
        n \in LongLengths, at \in {0, 1, 201}, q \in {<<1>>}, other \in {<<0>>, <<0, 1>>}}

NextWorkers ==
    \/ \E p \in Payloads, id \in InsertIds, now \in NowValues :
          ~batch.active /\ Insert(p.values, id, p.metadata, now)
    \/ \E id \in KnownIds : ~batch.active /\ Remove(id)
    \/ \E qs \in LongBatches, k \in 1..MaxK, hardware \in HardwareConcurrency :
          ParallelStart(qs, k, hardware)
    \/ \E t \in 1..ThreadCap : WorkerRun(t)
    \/ Join
    \/ ParallelReturn
    \/ ParallelThrow

SpecWorkers == InitIndex /\ [][NextWorkers]_vars

(***************************************************************************)
(* SpecMetric: one index object of each metric, filled with records of     *)
(* different lengths of vector and searched for the vectors it holds.      *)
(***************************************************************************)
\* the configurations the metrics are explored with
MetricConfigs ==
    { [dimension |-> 1, config |-> [DefaultHNSWConfig EXCEPT !.max_elements = 2, !.metric = m]] :
        m \in {"Euclidean", "Cosine", "DotProduct"} }

\* the vectors stored: of norm 0, 1 and 2
MetricVectors == {<<0>>, <<1>>, <<2>>}

InitMetric ==
    /\ \E c \in MetricConfigs : index = NewIndex(c.dimension, c.config)
    /\ disk = [p \in AllPaths |-> NoFile]
    /\ batch = NoBatch
    /\ last = Called("construct", "", TRUE)
    /\ assigned = {}
    /\ fresh = {}
    /\ storage = NewStorage
    /\ process = NoProcess
    /\ callers = NoCallers

NextMetric ==
    \/ \E v \in MetricVectors, id \in Ids, now \in NowValues : Insert(v, id, EmptyMap, now)
    \/ \E id \in Ids : Remove(id)
    \/ \E q \in MetricVectors, k \in 1..MaxK : Search(q, k)

SpecMetric == InitMetric /\ [][NextMetric]_vars

(***************************************************************************)
(* SpecStorage: a VectorStorage object on an empty data directory, its     *)
(* operations called from several threads.  Each runs under the manager's  *)
(* mutex (exclusive for create and delete, shared for the others) and the  *)
(* index's own lock, so each is one step; batch_insert and batch_search    *)
(* are taken whole here, their record-by-record steps being SpecBatch's.   *)
(***************************************************************************)
InitStorage ==
    /\ storage = NewStorage
    /\ disk = [p \in AllPaths |-> NoFile]
    /\ last = Called("construct", "", TRUE)
    /\ index = NewIndex(1, DefaultHNSWConfig)
    /\ batch = NoBatch
    /\ assigned = {}
    /\ fresh = {}
    /\ process = NoProcess
    /\ callers = NoCallers

\* the variables the storage operations do not touch
hnsw == <<index, batch, assigned, fresh, process, callers>>

\* the collection has room under the exploration bound for n more inserts
Explored(collection, n) ==
    collection \in DOMAIN storage.collections
        => storage.collections[collection].next_key + n - 1 <= MaxKey

CreateCollection(config) ==
    /\ LET r == create_collection(storage, disk, config) IN
        /\ storage' = r.st
        /\ disk' = r.dsk
        /\ last' = Called("create_collection", config.name, r.ret)
    /\ UNCHANGED hnsw

DeleteCollection(name) ==
    /\ LET r == delete_collection(storage, disk, name) IN
        /\ storage' = r.st
        /\ disk' = r.dsk
        /\ last' = Called("delete_collection", name, r.ret)
    /\ UNCHANGED hnsw

ListCollections ==
    /\ last' = Called("list_collections", "", list_collections(storage) # {})
    /\ UNCHANGED <<storage, disk, hnsw>>

CollectionExists(name) ==
    /\ last' = Called("collection_exists", name, collection_exists(storage, name))
    /\ UNCHANGED <<storage, disk, hnsw>>

GetStats(name) ==
    /\ last' = Called("get_stats", name, get_stats(storage, name).has_value)
    /\ UNCHANGED <<storage, disk, hnsw>>

StorageInsert(collection, vector, id, metadata, now) ==
    /\ Explored(collection, 1)
    /\ LET r == storage_insert(storage, collection, vector, id, metadata, now) IN
        /\ storage' = r.ix
        /\ last' = [Called("insert", collection, r.ok) EXCEPT !.error = r.error]
    /\ UNCHANGED <<disk, hnsw>>

StorageBatchInsert(collection, vectors, now) ==
    /\ Explored(collection, Len(vectors))
    /\ LET r == storage_batch_insert(storage, collection, vectors, now) IN
        /\ storage' = r.ix
        /\ last' = [Called("batch_insert", collection, r.ok) EXCEPT !.error = r.error]
    /\ UNCHANGED <<disk, hnsw>>

StorageRemove(collection, id) ==
    /\ LET r == storage_remove(storage, collection, id) IN
        /\ storage' = r.ix
        /\ last' = Called("remove", collection, r.ret)
    /\ UNCHANGED <<disk, hnsw>>

StorageSearch(collection, query, k) ==
    /\ \E r \in storage_search(storage, collection, query, k) :
        /\ storage' = r.ix
        /\ last' = [Called("search", collection, r.ok) EXCEPT !.error = r.error]
    /\ UNCHANGED <<disk, hnsw>>

StorageBatchSearch(collection, queries, k) ==
    /\ \E r \in storage_batch_search(storage, collection, queries, k) :
        /\ storage' = r.ix
        /\ last' = [Called("batch_search", collection, r.ok) EXCEPT !.error = r.error]
    /\ UNCHANGED <<disk, hnsw>>

StorageGet(collection, id) ==
    /\ last' = Called("get", collection, ~storage_get(storage, collection, id).null)
    /\ UNCHANGED <<storage, disk, hnsw>>

NextStorage ==
    \/ \E config \in CollectionConfigs : CreateCollection(config)
    \/ \E name \in CollectionNames : DeleteCollection(name)
    \/ ListCollections
    \/ \E name \in CollectionNames : CollectionExists(name)
    \/ \E name \in CollectionNames : GetStats(name)
    \/ \E c \in CollectionNames, p \in Payloads, id \in InsertIds, now \in NowValues :
          StorageInsert(c, p.values, id, p.metadata, now)
    \/ \E c \in CollectionNames, vs \in Batches, now \in NowValues :
          StorageBatchInsert(c, vs, now)
    \/ \E c \in CollectionNames, id \in Ids : StorageRemove(c, id)
    \/ \E c \in CollectionNames, q \in Vectors, k \in 1..MaxK : StorageSearch(c, q, k)
    \/ \E c \in CollectionNames, qs \in QueryBatches, k \in 1..MaxK :
          StorageBatchSearch(c, qs, k)
    \/ \E c \in CollectionNames, id \in Ids : StorageGet(c, id)

SpecStorage == InitStorage /\ [][NextStorage]_vars

(***************************************************************************)
(* SpecPersist: a VectorStorage object whose collections are created,      *)
(* filled, deleted and saved to the data directory.                        *)
(***************************************************************************)
SaveAll ==
    /\ disk' = save_all(storage, disk)
    /\ last' = Called("save_all", "", TRUE)
    /\ UNCHANGED <<storage, hnsw>>

\* the inserts made while persistence is explored
PersistInserts ==
    { [collection |-> "docs", values |-> <<1>>, id |-> "a", metadata |-> [type |-> "test"]],
      [collection |-> "imgs", values |-> <<0, 1>>, id |-> "", metadata |-> EmptyMap] }

\* the ids a caller may name in a collection
StoredIds(c) ==
    IF c \in DOMAIN storage.collections
    THEN DOMAIN storage.collections[c].id_to_key ELSE {}

\* the VectorStorage object is destroyed (its destructor runs save_all) and
\* a new one is constructed on the same data directory
Restart(keep_reservation) ==
    /\ LET dsk == save_all(storage, disk)
           r == OpenStorage(dsk, keep_reservation)
       IN /\ r.ok
          /\ storage' = r.ix
          /\ disk' = dsk
    /\ last' = Called("restart", "", TRUE)
    /\ UNCHANGED hnsw

\* the process ends without the destructor running and a new VectorStorage
\* object is constructed on the same data directory
Recover(keep_reservation) ==
    /\ LET r == OpenStorage(disk, keep_reservation) IN
          /\ r.ok
          /\ storage' = r.ix
    /\ last' = Called("recover", "", TRUE)
    /\ UNCHANGED <<disk, hnsw>>

NextPersist ==
    \/ \E config \in CollectionConfigs : CreateCollection(config)
    \/ \E name \in CollectionNames : DeleteCollection(name)
    \/ \E i \in PersistInserts, now \in NowValues :
          StorageInsert(i.collection, i.values, i.id, i.metadata, now)
    \/ \E c \in CollectionNames : \E id \in StoredIds(c) : StorageRemove(c, id)
    \/ SaveAll
    \/ \E keep \in BOOLEAN : Restart(keep)
    \/ \E keep \in BOOLEAN : Recover(keep)

SpecPersist == InitStorage /\ [][NextPersist]_vars

(***************************************************************************)
(* SpecUpdate: records of the collections are inserted, removed and        *)
(* updated through the HTTP handler.                                       *)
(***************************************************************************)
UpdateVector(collection, id, values, metadata, now) ==
    /\ Explored(collection, 1)
    /\ LET r == handle_update_vector(storage, collection, id, values, metadata, now) IN
        /\ storage' = r.st
        /\ last' = [op |-> "update", collection |-> collection, id |-> id,
                    values |-> values, metadata |-> metadata,
                    removed |-> r.removed, status |-> r.status, answer |-> r.id]
    /\ UNCHANGED <<disk, hnsw>>

NextUpdate ==
    \/ \E config \in CollectionConfigs : CreateCollection(config)
    \/ \E c \in CollectionNames, p \in Payloads, id \in InsertIds, now \in NowValues :
          StorageInsert(c, p.values, id, p.metadata, now)
    \/ \E c \in CollectionNames, id \in Ids : StorageRemove(c, id)
    \/ \E c \in CollectionNames, id \in Ids, p \in Payloads, now \in NowValues :
          UpdateVector(c, id, p.values, p.metadata, now)

SpecUpdate == InitStorage /\ [][NextUpdate]_vars

(***************************************************************************)
(* SpecFaq: the FAQ routes of the HTTP server.  A namespace of a tenant is *)
(* a collection; POST .../faq stores a record whose metadata holds the     *)
(* question, the answer and the category, PUT .../faq/<id> replaces it.    *)
(***************************************************************************)
\* what parse_json_string gives for a key of the body: "" when the key is
\* missing
Questions == {"", "q", "r"}

Answers == {"", "s"}

Categories == {"", "c"}

\* what parse_json_float_array gives for "vector": empty when it is missing
FaqVectors == {<<>>, <<1>>, <<0>>}

\* the collection handle_create_namespace makes
FaqConfigs ==
    {[name |-> make_collection_name(t, n), dimension |-> 1, metric |-> "Cosine",
      hnsw_config |-> DefaultHNSWConfig] : t \in Tenants, n \in Namespaces}

FaqPaths ==
    UNION {{collection_path(c.name), MetaPath(collection_path(c.name)),
            config_path(c.name)} : c \in FaqConfigs}

\* the metadata of a FAQ record
FaqMetadata(question, answer, category, tenant_id, ns) ==
    [question |-> question, answer |-> answer, category |-> category,
     type |-> "faq", tenant_id |-> tenant_id, namespace |-> ns]

\* what a FAQ route answers, and the fields of the old record that
\* handle_update_faq read after the record was erased
FaqResponse(st, status, id, late) ==
    [st |-> st, status |-> status, id |-> id, late |-> late]

\* HTTPServer::handle_add_faq
handle_add_faq(st, tenant_id, ns, faq_id, question, answer, category, values, now) ==
    LET col_name == make_collection_name(tenant_id, ns) IN
    IF ~collection_exists(st, col_name) THEN FaqResponse(st, 404, "", {})
    ELSE IF values = <<>> THEN FaqResponse(st, 400, "", {})
    ELSE LET ins == storage_insert(st, col_name, values, faq_id,
                                   FaqMetadata(question, answer, category, tenant_id, ns),
                                   now)
         IN IF ins.ok THEN FaqResponse(ins.ix, 201, ins.ret, {})
            ELSE FaqResponse(ins.ix, 500, "", {})

\* what a string read from freed memory may be when the memory has been
\* used again
Garbage == "?"

\* existing->metadata.at(field) after the record was erased: the read is
\* undefined.  Where the freed memory is intact it yields what the record
\* held (and throws std::out_of_range if the key was not in it); where it
\* has been used again it yields anything.
LateRead(old, field, intact) ==
    IF ~intact THEN [ok |-> TRUE, value |-> Garbage]
    ELSE IF field \in DOMAIN old.metadata THEN [ok |-> TRUE, value |-> old.metadata[field]]
    ELSE [ok |-> FALSE, value |-> ""]

\* HTTPServer::handle_update_faq: the outcomes it may have.  The pointer
\* get returned is kept across the remove; the values are copied before
\* the remove, the question, the answer and the category are read after
\* it, each only if the body left it out.  Status 0: the process was
\* killed by the read.
handle_update_faq(st, tenant_id, ns, faq_id, question, answer, category, values, now) ==
    LET col_name == make_collection_name(tenant_id, ns)
        existing == storage_get(st, col_name, faq_id)
    IN
    IF existing.null THEN {FaqResponse(st, 404, "", {})}
    ELSE LET old == st.collections[col_name].data[existing.key]
             values1 == IF values = <<>> THEN old.values ELSE values
             rm == storage_remove(st, col_name, faq_id)
             given == [question |-> question, answer |-> answer, category |-> category]
             late == {f \in DOMAIN given : given[f] = ""}
             after(intact) ==
                 IF \E f \in late : ~LateRead(old, f, intact).ok
                 THEN FaqResponse(rm.ix, 500, "", late)
                 ELSE LET field(f) == IF f \in late THEN LateRead(old, f, intact).value
                                      ELSE given[f]
                          ins == storage_insert(rm.ix, col_name, values1, faq_id,
                                     FaqMetadata(field("question"), field("answer"),
                                                 field("category"), tenant_id, ns),
                                     now)
                      IN IF ins.ok THEN FaqResponse(ins.ix, 200, ins.ret, late)
                         ELSE FaqResponse(ins.ix, 500, "", late)
         IN IF late = {} THEN {after(TRUE)}
            ELSE {after(TRUE), after(FALSE), FaqResponse(rm.ix, 0, "", late)}

InitFaq ==
    /\ storage = NewStorage
    /\ disk = [p \in AllPaths \cup FaqPaths |-> NoFile]
    /\ last = Called("construct", "", TRUE)
    /\ index = NewIndex(1, DefaultHNSWConfig)
    /\ batch = NoBatch
    /\ assigned = {}
    /\ fresh = {}
    /\ process = NoProcess
    /\ callers = NoCallers

\* the server is running: no request has killed the process
Running == last.op # "killed"

\* POST /tenants/<tenant>/namespaces
CreateNamespace(config) ==
    /\ Running
    /\ CreateCollection(config)

\* POST /tenants/<tenant>/namespaces/<ns>/faq
AddFaq(tenant_id, ns, faq_id, question, answer, category, values, now) ==
    /\ Running
    /\ Explored(make_collection_name(tenant_id, ns), 1)
    /\ LET r == handle_add_faq(storage, tenant_id, ns, faq_id, question, answer,
                               category, values, now)
       IN /\ storage' = r.st
          /\ last' = [op |-> "add_faq", id |-> faq_id, status |-> r.status]
    /\ UNCHANGED <<disk, hnsw>>

\* PUT /tenants/<tenant>/namespaces/<ns>/faq/<id>
UpdateFaq(tenant_id, ns, faq_id, question, answer, category, values, now) ==
    /\ Running
    /\ Explored(make_collection_name(tenant_id, ns), 1)
    /\ \E r \in handle_update_faq(storage, tenant_id, ns, faq_id, question, answer,
                                   category, values, now) :
          LET col_name == make_collection_name(tenant_id, ns)
              existing == storage_get(storage, col_name, faq_id)
              stored == IF existing.null THEN <<>>
                        ELSE <<storage.collections[col_name].data[existing.key]>>
          IN
          /\ storage' = r.st
          /\ last' = [op |-> IF r.status = 0 THEN "killed" ELSE "update_faq",
                      collection |-> make_collection_name(tenant_id, ns),
                      id |-> faq_id, status |-> r.status, late |-> r.late,
                      question |-> question, answer |-> answer,
                      category |-> category, values |-> values,
                      old |-> stored]
    /\ UNCHANGED <<disk, hnsw>>

NextFaq ==
    \/ \E config \in FaqConfigs : CreateNamespace(config)
    \/ \E t \in Tenants, n \in Namespaces, id \in Ids, q \in Questions, a \in Answers,
          c \in Categories, v \in FaqVectors, now \in NowValues :
          AddFaq(t, n, id, q, a, c, v, now)
    \/ \E t \in Tenants, n \in Namespaces, id \in Ids, q \in Questions, a \in Answers,
          c \in Categories, v \in FaqVectors, now \in NowValues :
          UpdateFaq(t, n, id, q, a, c, v, now)

SpecFaq == InitFaq /\ [][NextFaq]_vars

(***************************************************************************)
(* SpecConfig: collections come to exist through every front-end (the gRPC *)
(* CreateCollection, POST /collections, POST /tenants/<tenant>/namespaces, *)
(* and create_collection called with a configuration of the caller's       *)
(* making), are saved, and are loaded again by a new VectorStorage object  *)
(* on the same data directory.                                             *)
(***************************************************************************)
\* the "metric" of a request: missing, or a name
MetricTexts == {"", "euclidean", "dot_product"}

\* the if / else if / else over the metric's name that each front-end has
ParseMetric(text) ==
    IF text = "euclidean" THEN "Euclidean"
    ELSE IF text = "dot_product" THEN "DotProduct"
    ELSE "Cosine"

\* index_config of a CreateCollectionRequest: unset, or set
IndexConfigMessages == {<<>>, <<[m |-> 8, ef_construction |-> 100, ef_search |-> 20]>>}

\* VectorServiceImpl::CreateCollection: the configuration it hands to
\* create_collection
grpc_config(name, dimension, metric, index_config) ==
    LET hnsw_config ==
            IF index_config = <<>> THEN DefaultHNSWConfig
            ELSE [DefaultHNSWConfig EXCEPT
                     !.M = index_config[1].m,
                     !.ef_construction = index_config[1].ef_construction,
                     !.ef_search = index_config[1].ef_search]
    IN [name |-> name, dimension |-> dimension, metric |-> ParseMetric(metric),
        hnsw_config |-> [hnsw_config EXCEPT !.metric = ParseMetric(metric)]]

\* HTTPServer::handle_create_collection: the configuration it hands to
\* create_collection
http_config(name, dimension, metric, m, ef_construction, ef_search) ==
    [name |-> name, dimension |-> dimension, metric |-> ParseMetric(metric),
     hnsw_config |-> [DefaultHNSWConfig EXCEPT
                         !.M = m,
                         !.ef_construction = ef_construction,
                         !.ef_search = ef_search,
                         !.metric = ParseMetric(metric)]]

\* HTTPServer::handle_create_namespace: the configuration it hands to
\* create_collection; hnsw_config is left as default-constructed
namespace_config(tenant_id, ns, dimension, metric) ==
    [name |-> make_collection_name(tenant_id, ns), dimension |-> dimension,
     metric |-> ParseMetric(IF metric = "" THEN "cosine" ELSE metric),
     hnsw_config |-> DefaultHNSWConfig]

NextConfig ==
    \/ \E config \in CollectionConfigs : CreateCollection(config)
    \/ \E index_config \in IndexConfigMessages :
          CreateCollection(grpc_config("docs", 1, "dot_product", index_config))
    \/ \E m \in {16, 8} :
          CreateCollection(http_config("imgs", 2, "euclidean", m, 200, 50))
    \/ \E t \in Tenants, n \in Namespaces, metric \in MetricTexts :
          CreateNamespace(namespace_config(t, n, 1, metric))
    \/ \E name \in StoredNames : GetStats(name)
    \/ SaveAll
    \/ \E keep \in BOOLEAN : Restart(keep)
    \/ \E keep \in BOOLEAN : Recover(keep)

SpecConfig == InitFaq /\ [][NextConfig]_vars

(***************************************************************************)
(* SpecShutdown: the host process.  main constructs the VectorStorage      *)
(* object and the two servers, the HTTP thread and the gRPC server serve   *)
(* requests, SIGINT and SIGTERM arrive at any time and run signal_handler  *)
(* on the thread they are delivered to.                                    *)
(***************************************************************************)
\* the signals explored
MaxSignals == 2

InitProcess ==
    /\ storage = NewStorage
    /\ disk = [p \in AllPaths |-> NoFile]
    /\ last = Called("main", "", TRUE)
    /\ index = NewIndex(1, DefaultHNSWConfig)
    /\ batch = NoBatch
    /\ assigned = {}
    /\ fresh = {}
    /\ callers = NoCallers
    /\ process = [pc |-> "construct",    \* where main stands
                  http |-> "null",       \* g_http_server
                  running |-> FALSE,     \* HTTPServer::running_
                  thread |-> "none",     \* HTTPServer::server_thread_
                  joined |-> FALSE,
                  grpc |-> "null",       \* g_grpc_server
                  server |-> "null",     \* GRPCServer::server_
                  handler |-> "idle",    \* where signal_handler stands
                  on |-> "none",         \* the thread signal_handler runs on
                  signals |-> 0,
                  saved |-> FALSE]

\* the step is main's and main is not interrupted by the handler
MainAt(pc) == process.pc = pc /\ process.on # "main"

\* main: std::make_shared<VectorStorage>(data_dir); what the constructor
\* throws is caught and main returns 1
MainStorage(keep_reservation) ==
    /\ MainAt("construct")
    /\ LET r == OpenStorage(disk, keep_reservation) IN
          IF r.ok
          THEN /\ storage' = r.ix
               /\ process' = [process EXCEPT !.pc = "make_http"]
          ELSE /\ storage' = storage
               /\ process' = [process EXCEPT !.pc = "exited"]
    /\ last' = Called("main", "", TRUE)
    /\ UNCHANGED <<index, disk, batch, assigned, fresh, callers>>

\* main: g_http_server = std::make_unique<HTTPServer>(http_port, storage)
MainHttp ==
    /\ MainAt("make_http")
    /\ process' = [process EXCEPT !.http = "made", !.pc = "start_http"]
    /\ UNCHANGED <<index, disk, batch, last, assigned, fresh, storage, callers>>

\* HTTPServer::start
MainHttpStart ==
    /\ MainAt("start_http")
    /\ process' = [process EXCEPT !.running = TRUE, !.thread = "running",
                                  !.pc = "make_grpc"]
    /\ UNCHANGED <<index, disk, batch, last, assigned, fresh, storage, callers>>

\* main: g_grpc_server = std::make_unique<GRPCServer>(grpc_address, storage)
MainGrpc ==
    /\ MainAt("make_grpc")
    /\ process' = [process EXCEPT !.grpc = "made", !.pc = "run"]
    /\ UNCHANGED <<index, disk, batch, last, assigned, fresh, storage, callers>>

\* GRPCServer::run as far as server_ = builder.BuildAndStart()
MainRun ==
    /\ MainAt("run")
    /\ process' = [process EXCEPT !.server = "serving", !.pc = "wait"]
    /\ UNCHANGED <<index, disk, batch, last, assigned, fresh, storage, callers>>

\* server_->Wait() returns once the server was shut down
MainWait ==
    /\ MainAt("wait")
    /\ process.server = "shutdown"
    /\ process' = [process EXCEPT !.pc = "return"]
    /\ UNCHANGED <<index, disk, batch, last, assigned, fresh, storage, callers>>

\* the thread of the HTTP server can be joined
Joinable == process.thread # "none" /\ ~process.joined

\* main returns 0 and the objects of static storage are destroyed:
\* ~HTTPServer calls stop
MainReturn ==
    /\ MainAt("return")
    /\ process' = [process EXCEPT !.running = FALSE, !.pc = "destroy"]
    /\ UNCHANGED <<index, disk, batch, last, assigned, fresh, storage, callers>>

\* stop has joined the thread; ~GRPCServer shuts the server down and lets
\* go of the last reference to the VectorStorage object, whose destructor
\* calls save_all; the process ends
MainDestroy ==
    /\ MainAt("destroy")
    /\ Joinable => process.thread = "ended"
    /\ disk' = save_all(storage, disk)
    /\ process' = [process EXCEPT !.joined = TRUE, !.server = "shutdown",
                                  !.saved = TRUE, !.pc = "exited"]
    /\ last' = Called("save_all", "", TRUE)
    /\ UNCHANGED <<index, batch, assigned, fresh, storage, callers>>

\* the loop of HTTPServer::run_server ends when running_ is false
HttpEnd ==
    /\ process.thread = "running"
    /\ process.on # "http"
    /\ ~process.running
    /\ process' = [process EXCEPT !.thread = "ended"]
    /\ UNCHANGED <<index, disk, batch, last, assigned, fresh, storage, callers>>

\* a server answers requests
Serving ==
    /\ process.pc \notin {"exited", "aborted"}
    /\ \/ process.thread = "running" /\ process.running /\ process.on # "http"
       \/ process.server = "serving"

\* the threads a signal may be delivered to
Threads == {"main"} \cup (IF process.thread = "running" THEN {"http"} ELSE {})

\* SIGINT or SIGTERM is delivered to a thread and signal_handler is entered
Signal(thread) ==
    /\ process.pc \in {"construct", "make_http", "start_http", "make_grpc", "run",
                       "wait", "return"}
    /\ process.handler = "idle"
    /\ process.signals < MaxSignals
    /\ thread \in Threads
    /\ process' = [process EXCEPT !.handler = "stop", !.on = thread, !.signals = @ + 1]
    /\ UNCHANGED <<index, disk, batch, last, assigned, fresh, storage, callers>>

\* signal_handler: g_http_server->stop(), when there is an HTTP server.
\* stop joins the thread; joining the thread the handler runs on throws
\* std::system_error, which nothing catches: the process is aborted.
HandlerStop ==
    /\ process.handler = "stop"
    /\ process' =
          IF process.http = "null" THEN [process EXCEPT !.handler = "shutdown"]
          ELSE IF ~Joinable THEN [process EXCEPT !.running = FALSE, !.handler = "shutdown"]
          ELSE IF process.on = "http"
               THEN [process EXCEPT !.running = FALSE, !.pc = "aborted",
                                    !.handler = "idle", !.on = "none"]
          ELSE [process EXCEPT !.running = FALSE, !.handler = "join"]
    /\ UNCHANGED <<index, disk, batch, last, assigned, fresh, storage, callers>>

\* server_thread_.join() returns when the thread has ended
HandlerJoin ==
    /\ process.handler = "join"
    /\ process.thread = "ended"
    /\ process' = [process EXCEPT !.joined = TRUE, !.handler = "shutdown"]
    /\ UNCHANGED <<index, disk, batch, last, assigned, fresh, storage, callers>>

\* signal_handler: g_grpc_server->shutdown(), when there is a gRPC server;
\* GRPCServer::shutdown does nothing while server_ is null
HandlerShutdown ==
    /\ process.handler = "shutdown"
    /\ process' = [process EXCEPT
            !.server = IF process.grpc = "made" /\ @ # "null" THEN "shutdown" ELSE @,
            !.handler = "idle", !.on = "none"]
    /\ UNCHANGED <<index, disk, batch, last, assigned, fresh, storage, callers>>

Main ==
    \/ \E keep \in BOOLEAN : MainStorage(keep)
    \/ MainHttp
    \/ MainHttpStart
    \/ MainGrpc
    \/ MainRun
    \/ MainWait
    \/ MainReturn
    \/ MainDestroy

Handler ==
    \/ HandlerStop
    \/ HandlerJoin
    \/ HandlerShutdown

Requests ==
    \/ \E config \in CollectionConfigs : Serving /\ CreateCollection(config)
    \/ \E i \in PersistInserts, now \in NowValues :
          Serving /\ StorageInsert(i.collection, i.values, i.id, i.metadata, now)

NextShutdown ==
    \/ Main
    \/ HttpEnd
    \/ Handler
    \/ Requests
    \/ \E thread \in {"main", "http"} : Signal(thread)

\* every thread that can run does run in the end; requests and signals
\* come as they may
SpecShutdown ==
    /\ InitProcess
    /\ [][NextShutdown]_vars
    /\ WF_vars(Main)
    /\ WF_vars(HttpEnd)
    /\ WF_vars(Handler)

(***************************************************************************)
(* SpecFault: the files of the data directory are damaged between a save   *)
(* and the construction of the next VectorStorage object.  A configuration *)
(* file is cut after the "dimension" key; a graph file becomes undecodable;*)
(* a sidecar disappears or is cut short.  What load does with a sidecar    *)
(* cut short is not defined by the code (it reads the stream unchecked     *)
(* into uninitialised variables): it may throw at the first cut record or  *)
(* go on and return true with the records read so far, and both are        *)
(* outcomes here, chosen when the file is cut.                             *)
(***************************************************************************)
\* the ways a file can be found damaged
Damaged(file) ==
    IF file.kind = "json" THEN {[file EXCEPT !.dimension = ""]}
    ELSE IF file.kind = "graph" THEN {[file EXCEPT !.intact = FALSE]}
    ELSE {NoFile}
         \cup {[file EXCEPT !.throws_at = j + 1] : j \in 0..file.num}
         \cup {[file EXCEPT !.num = j, !.records = SubSeq(file.records, 1, j)] :
                 j \in 0..file.num - 1}

\* the file has been written and not damaged
Sound(file) ==
    /\ file.exists
    /\ file.kind = "json" => Decodable(file.dimension)
    /\ file.kind = "graph" => file.intact
    /\ file.kind = "meta" => file.throws_at = 0 /\ file.num = Len(file.records)

\* one file is damaged at a time
Damage(path) ==
    /\ Sound(disk[path])
    /\ \A other \in StoragePaths : disk[other].exists => Sound(disk[other])
    /\ \E file \in Damaged(disk[path]) : disk' = [disk EXCEPT ![path] = file]
    /\ last' = Called("damage", "", TRUE)
    /\ UNCHANGED <<storage, hnsw>>

\* a new VectorStorage object is constructed on the data directory; when
\* the constructor throws there is no object and the old state stays
Reopen(keep_reservation) ==
    /\ LET r == OpenStorage(disk, keep_reservation) IN
          /\ storage' = IF r.ok THEN r.ix ELSE storage
          /\ last' = [Called("reopen", "", r.ok) EXCEPT !.error = r.error]
    /\ UNCHANGED <<disk, hnsw>>

\* the files that get damaged: those of "docs", next to an undamaged "imgs"
DamagedPaths ==
    {config_path("docs"), collection_path("docs"), MetaPath(collection_path("docs"))}

NextFault ==
    \/ \E config \in CollectionConfigs : CreateCollection(config)
    \/ \E i \in PersistInserts, now \in NowValues :
          StorageInsert(i.collection, i.values, i.id, i.metadata, now)
    \/ SaveAll
    \/ \E path \in DamagedPaths : Damage(path)
    \/ \E keep \in BOOLEAN : Reopen(keep)

SpecFault == InitStorage /\ [][NextFault]_vars

(***************************************************************************)
(* SpecLoadFault: one index object that is filled, saved and loaded in     *)
(* place, until one of the two files of its path is found damaged or       *)
(* missing; from then on the index is loaded from what is there and        *)
(* searched.                                                               *)
(***************************************************************************)
\* the two files of an index path
IndexFiles == IndexPaths \cup {MetaPath(p) : p \in IndexPaths}

\* no file of the index has been damaged
Unharmed == \A path \in IndexFiles : disk[path].exists => Sound(disk[path])

\* one of the two files of the index is damaged
DamageIndex(path) ==
    /\ Unharmed
    /\ disk[path].exists
    /\ \E file \in Damaged(disk[path]) : disk' = [disk EXCEPT ![path] = file]
    /\ last' = Called("damage", "", TRUE)
    /\ UNCHANGED <<index, batch, assigned, fresh, storage, process, callers>>

NextLoadFault ==
    \/ \E p \in Payloads, id \in InsertIds, now \in NowValues :
          Unharmed /\ Insert(p.values, id, p.metadata, now)
    \/ \E id \in KnownIds : Unharmed /\ Remove(id)
    \/ \E p \in IndexPaths : Unharmed /\ Save(p)
    \/ \E p \in IndexFiles : DamageIndex(p)
    \/ \E q \in Vectors, k \in 1..MaxK : Search(q, k)
    \/ \E p \in IndexPaths, keep \in BOOLEAN : Load(p, keep)

SpecLoadFault == InitIndex /\ [][NextLoadFault]_vars

(***************************************************************************)
(* Threads.  Several threads call into one HNSWIndex, or into one          *)
(* VectorStorage, at once.  A call is a sequence of steps, and the steps   *)
(* of different threads interleave: a guard of std::shared_lock or         *)
(* std::unique_lock is taken in one step and given back in the step that   *)
(* leaves its scope, and what the code does while it holds the guard is a  *)
(* step in between.  Each object has its own mutex_.                       *)
(***************************************************************************)
\* the threads that call
MaxThreads == 2

\* the index objects a manager is let to create under one name
MaxObjects == 2

Callers == 1..MaxThreads

\* the thread std::async starts for a batch_search of caller t
WorkerOf(t) == t + MaxThreads

Workers == {WorkerOf(t) : t \in Callers}

\* std::shared_mutex: the thread holding it exclusively (0: none) and the
\* threads holding it shared
Unlocked == [ex |-> 0, sh |-> {}]

\* CanLock, had it not waited for the readers
CanLock_despite_readers(m) == m.ex = 0

\* std::unique_lock can be taken
CanLock(m) == m.ex = 0 /\ m.sh = {}

\* CanLockShared, had it not waited for the writer
CanLockShared_despite_writer(m) == TRUE

\* std::shared_lock can be taken
CanLockShared(m) == m.ex = 0

Lock(m, t) == [m EXCEPT !.ex = t]

LockShared(m, t) == [m EXCEPT !.sh = @ \cup {t}]

\* the guard of thread t leaves its scope
Unlock(m, t) == [ex |-> IF m.ex = t THEN 0 ELSE m.ex, sh |-> m.sh \ {t}]

Holds(m, t) == m.ex = t \/ t \in m.sh

\* the index a thread calls directly: the variable index
Direct == ""

\* the collection the threads of a manager work on
LockNames == {"docs"}

Targets == {Direct} \cup LockNames

\* a thread outside every call
Idle ==
    [pc |-> "idle", op |-> "", call |-> "", layer |-> "", target |-> Direct,
     gen |-> 0,          \* the index object the name was resolved to
     id |-> "", values |-> <<>>, list |-> <<>>, k |-> 0,
     i |-> 0,            \* the record or query of a batch the thread is at
     ptrs |-> {},        \* the records the returned pointers point to
     ok |-> TRUE,
     first |-> <<>>]     \* the index as the first query of a batch found it

\* nobody is inside the objects, every mutex_ is free
Ready ==
    [t |-> [x \in Callers \cup Workers |-> Idle],
     manager |-> Unlocked,                      \* VectorStorage::mutex_
     mutex |-> [n \in Targets |-> Unlocked],    \* HNSWIndex::mutex_
     gen |-> [n \in Targets |-> 0],             \* the objects made under a name
     killed |-> FALSE]

\* the index object a thread is working on
IxOf(target) == IF target = Direct THEN index ELSE storage.collections[target]

\* the object the thread resolved has not been destroyed
Alive(th) ==
    \/ th.target = Direct
    \/ /\ th.target \in DOMAIN storage.collections
       /\ callers.gen[th.target] = th.gen

\* Mode, had insert taken the lock shared
Mode_insert_shared(call) == IF call \in {"remove", "load"} THEN "unique" ELSE "shared"

\* the lock an HNSWIndex operation takes: insert, remove and load
\* std::unique_lock, the others std::shared_lock
Mode(call) == IF call \in {"insert", "remove", "load"} THEN "unique" ELSE "shared"

\* ManagerMode, had delete_collection taken the lock shared
ManagerMode_delete_shared(op) ==
    IF op = "create_collection" THEN "unique" ELSE "shared"

\* the lock a VectorStorage operation takes on the manager
ManagerMode(op) ==
    IF op \in {"create_collection", "delete_collection"} THEN "unique" ELSE "shared"

\* the thread calls an HNSWIndex operation: insert and search compare the
\* dimension before they take the lock
StartCall(th, call, values, id) ==
    [th EXCEPT !.call = call, !.values = values, !.id = id,
               !.pc = IF call \in {"insert", "search"} THEN "check" ELSE "i_lock"]

\* the thread is back at its caller, the guards are gone: a caller that was
\* handed pointers goes on to read the records
Left(th) == IF th.ptrs # {} THEN [th EXCEPT !.pc = "use", !.call = ""] ELSE Idle

\* the operation on the index is over: a passthrough of the manager returns
\* and its guard leaves scope
Finish(th, ok) ==
    IF th.layer = "manager"
    THEN [th EXCEPT !.ok = ok, !.call = "", !.pc = "m_unlock"]
    ELSE Left([th EXCEPT !.ok = ok])

\* the thread starts the operation on the index
Begin(th) ==
    CASE th.op = "batch_insert" ->
            IF th.list = <<>> THEN Finish(th, TRUE)
            ELSE StartCall([th EXCEPT !.i = 1], "insert", th.list[1].values, th.list[1].id)
      [] th.op = "batch_search" ->
            IF th.list = <<>> THEN Finish(th, TRUE)
            ELSE IF Len(th.list) <= SequentialLimit
            THEN StartCall([th EXCEPT !.i = 1], "search", th.list[1], "")
            ELSE [th EXCEPT !.pc = "spawn"]
      [] th.op = "get_stats" -> StartCall(th, "memory_usage", <<>>, "")
      [] th.op = "save_all" -> StartCall(th, "save", <<>>, "")
      [] OTHER -> StartCall(th, th.op, th.values, th.id)

\* an HNSWIndex operation has returned (ok) or thrown: batch_insert swallows
\* what insert throws and goes to the next record, batch_search and its
\* worker go to the next query and are ended by what search throws
Returned(th, ok) ==
    CASE th.op = "batch_insert" ->
            IF th.i < Len(th.list)
            THEN StartCall([th EXCEPT !.i = @ + 1], "insert",
                           th.list[th.i + 1].values, th.list[th.i + 1].id)
            ELSE Finish(th, TRUE)
      [] th.op = "batch_search" ->
            IF ok /\ th.i < Len(th.list)
            THEN StartCall([th EXCEPT !.i = @ + 1], "search", th.list[th.i + 1], "")
            ELSE Finish(th, ok)
      [] th.op = "worker" ->
            IF ok /\ th.i < Len(th.list)
            THEN StartCall([th EXCEPT !.i = @ + 1], "search", th.list[th.i + 1], "")
            ELSE [th EXCEPT !.ok = ok, !.call = "", !.pc = "done"]
      [] OTHER -> Finish(th, ok)

\* the file an index is saved to and loaded from
PathOf(target) ==
    IF target = Direct THEN CHOOSE p \in IndexPaths : TRUE ELSE collection_path(target)

\* what the operation does while it holds the lock: the index and the disk
\* after it, whether it returned, and the records its pointers point to
Outcome4(ix, dsk, ok, ptrs) == [ix |-> ix, dsk |-> dsk, ok |-> ok, ptrs |-> ptrs]

BodyOutcomes(th, ix) ==
    CASE th.call = "insert" ->
            {Outcome4(r.ix, disk, r.ok, {}) :
                r \in {insert(ix, th.values, th.id, EmptyMap, now) : now \in NowValues}}
      [] th.call = "remove" ->
            {Outcome4(remove(ix, th.id).ix, disk, TRUE, {})}
      [] th.call = "search" ->
            {Outcome4(r.ix, disk, r.ok,
                      IF r.ok THEN {r.ret[i].data.key : i \in 1..Len(r.ret)} ELSE {}) :
                r \in search(ix, th.values, th.k)}
      [] th.call = "get" ->
            {Outcome4(ix, disk, TRUE,
                      IF get(ix, th.id).null THEN {} ELSE {get(ix, th.id).key})}
      [] th.call = "memory_usage" -> {Outcome4(ix, disk, TRUE, {})}
      [] th.call = "save" ->
            {Outcome4(ix,
                      IF th.op = "save_all"
                      THEN save_config(storage, save(ix, disk, PathOf(th.target)), th.target)
                      ELSE save(ix, disk, PathOf(th.target)),
                      TRUE, {})}
      [] th.call = "load" ->
            {Outcome4(r.ix, disk, r.ok, {}) :
                r \in {load(ix, disk, PathOf(th.target), keep) : keep \in BOOLEAN}}

\* what a query of a batch found: the index the first query was answered
\* against is kept
Observed(th, ix) ==
    IF th.op \in {"batch_search", "worker"} /\ th.first = <<>>
    THEN [th EXCEPT !.first = <<ix>>]
    ELSE th

Set(t, th) == [callers EXCEPT !.t[t] = th]

SetIx(target, ix) ==
    IF target = Direct
    THEN index' = ix /\ storage' = storage
    ELSE index' = index /\ storage' = [storage EXCEPT !.collections[target] = ix]

quiet == <<batch, last, assigned, fresh, process>>

\* insert and search: the dimension is compared before the lock is taken,
\* and a vector of another dimension is thrown back
Check(t) ==
    LET th == callers.t[t] IN
    /\ ~callers.killed
    /\ th.pc = "check"
    /\ Alive(th)
    /\ callers' = Set(t, IF Len(th.values) # IxOf(th.target).dimension
                         THEN Returned(th, FALSE)
                         ELSE [th EXCEPT !.pc = "i_lock"])
    /\ UNCHANGED <<index, storage, disk, quiet>>

\* std::unique_lock lock(mutex_) or std::shared_lock lock(mutex_) of an
\* HNSWIndex operation
LockIndex(t) ==
    LET th == callers.t[t]
        m == callers.mutex[th.target]
    IN
    /\ ~callers.killed
    /\ th.pc = "i_lock"
    /\ Alive(th)
    /\ IF Mode(th.call) = "unique" THEN CanLock(m) ELSE CanLockShared(m)
    /\ callers' = [callers EXCEPT
                      !.mutex[th.target] = IF Mode(th.call) = "unique"
                                           THEN Lock(m, t) ELSE LockShared(m, t),
                      !.t[t] = [th EXCEPT !.pc = "i_body"]]
    /\ UNCHANGED <<index, storage, disk, quiet>>

\* the operation runs under its lock and returns: the guard leaves scope
Body(t) ==
    LET th == callers.t[t] IN
    /\ ~callers.killed
    /\ th.pc = "i_body"
    /\ Alive(th)
    /\ \E o \in BodyOutcomes(th, IxOf(th.target)) :
          /\ SetIx(th.target, o.ix)
          /\ disk' = o.dsk
          /\ callers' = [callers EXCEPT
                            !.mutex[th.target] = Unlock(@, t),
                            !.t[t] = Returned(
                                IF th.op \in {"get", "search"}
                                THEN [th EXCEPT !.ptrs = o.ptrs]
                                ELSE Observed(th, IxOf(th.target)),
                                o.ok)]
    /\ UNCHANGED quiet

\* batch_search with more than 100 queries starts its workers with
\* std::async and waits for them.  With no hardware thread reported the
\* division by num_threads kills the process, or the loop does not run and
\* the results are returned as constructed.  The batches explored here are
\* of 101 queries, which one worker takes whole.
Spawn(t) ==
    LET th == callers.t[t]
        n == Len(th.list)
    IN
    /\ ~callers.killed
    /\ th.pc = "spawn"
    /\ \E hardware \in HardwareConcurrency :
          LET nt == num_threads(n, hardware) IN
          IF nt = 0
          THEN \/ callers' = [callers EXCEPT !.killed = TRUE]
               \/ callers' = Set(t, Finish(th, TRUE))
          ELSE LET f == Futures(n, nt, chunk_size(n, nt))[1]
                   chunk == SubSeq(th.list, f.start_idx + 1, f.end_idx)
               IN callers' = [callers EXCEPT
                     !.t[t] = [th EXCEPT !.pc = "join"],
                     !.t[WorkerOf(t)] =
                         StartCall([th EXCEPT !.op = "worker", !.list = chunk, !.i = 1],
                                   "search", chunk[1], "")]
    /\ UNCHANGED <<index, storage, disk, quiet>>

\* f.get(): the worker has ended, and what it threw is thrown again
JoinWorker(t) ==
    LET th == callers.t[t]
        w == callers.t[WorkerOf(t)]
    IN
    /\ ~callers.killed
    /\ th.pc = "join"
    /\ w.pc = "done"
    /\ callers' = [callers EXCEPT !.t[t] = Finish(th, w.ok),
                                  !.t[WorkerOf(t)] = Idle]
    /\ UNCHANGED <<index, storage, disk, quiet>>

\* std::unique_lock lock(mutex_) or std::shared_lock lock(mutex_) of a
\* VectorStorage operation
LockManager(t) ==
    LET th == callers.t[t]
        m == callers.manager
    IN
    /\ ~callers.killed
    /\ th.pc = "m_lock"
    /\ IF ManagerMode(th.op) = "unique" THEN CanLock(m) ELSE CanLockShared(m)
    /\ callers' = [callers EXCEPT
                      !.manager = IF ManagerMode(th.op) = "unique"
                                  THEN Lock(m, t) ELSE LockShared(m, t),
                      !.t[t] = [th EXCEPT !.pc = "m_body"]]
    /\ UNCHANGED <<index, storage, disk, quiet>>

\* a passthrough, had it given the manager's lock back once it had found
\* the index
Resolve_releasing(t) ==
    LET th == callers.t[t] IN
    /\ ~callers.killed
    /\ th.pc = "m_body"
    /\ th.op \notin {"create_collection", "delete_collection"}
    /\ callers' = IF th.target \notin DOMAIN storage.collections
                  THEN Set(t, Finish(th, FALSE))
                  ELSE [callers EXCEPT
                           !.manager = Unlock(@, t),
                           !.t[t] = Begin([th EXCEPT !.gen = callers.gen[th.target]])]
    /\ UNCHANGED <<index, storage, disk, quiet>>

\* a passthrough looks the collection up in collections_ and calls the
\* index it finds, still holding the manager's lock; an unknown name is
\* thrown back or answered with false, nullptr or nullopt
Resolve(t) ==
    LET th == callers.t[t] IN
    /\ ~callers.killed
    /\ th.pc = "m_body"
    /\ th.op \notin {"create_collection", "delete_collection"}
    /\ callers' = Set(t, IF th.target \notin DOMAIN storage.collections
                         THEN Finish(th, FALSE)
                         ELSE Begin([th EXCEPT !.gen = callers.gen[th.target]]))
    /\ UNCHANGED <<index, storage, disk, quiet>>

\* VectorStorage::create_collection under its lock: a new index object
\* with a mutex_ of its own
Create(t, config) ==
    LET th == callers.t[t]
        r == create_collection(storage, disk, config)
    IN
    /\ ~callers.killed
    /\ th.pc = "m_body"
    /\ th.op = "create_collection"
    /\ config.name = th.target /\ config.dimension = th.k
    /\ storage' = r.st
    /\ disk' = r.dsk
    /\ callers' = [callers EXCEPT
                      !.gen[th.target] = IF r.ret THEN @ + 1 ELSE @,
                      !.mutex[th.target] = IF r.ret THEN Unlocked ELSE @,
                      !.t[t] = Finish(th, r.ret)]
    /\ UNCHANGED <<index, quiet>>

\* VectorStorage::delete_collection under its lock: erasing the entry
\* destroys the index object
Delete(t) ==
    LET th == callers.t[t]
        r == delete_collection(storage, disk, th.target)
    IN
    /\ ~callers.killed
    /\ th.pc = "m_body"
    /\ th.op = "delete_collection"
    /\ storage' = r.st
    /\ disk' = r.dsk
    /\ callers' = Set(t, Finish(th, r.ret))
    /\ UNCHANGED <<index, quiet>>

\* the guard of the VectorStorage operation leaves scope
UnlockManager(t) ==
    LET th == callers.t[t] IN
    /\ ~callers.killed
    /\ th.pc = "m_unlock"
    /\ callers' = [callers EXCEPT !.manager = Unlock(@, t), !.t[t] = Left(th)]
    /\ UNCHANGED <<index, storage, disk, quiet>>

\* the record a pointer of the thread points to is still in data_ of the
\* object the pointer came from
Live(th, key) == Alive(th) /\ key \in DOMAIN IxOf(th.target).data

\* the caller reads id, values and metadata through the pointers it was
\* handed, after every guard is gone.  Reading a record that was erased is
\* undefined: the read yields whatever the memory holds, or the process is
\* killed.
Use(t) ==
    LET th == callers.t[t] IN
    /\ ~callers.killed
    /\ th.pc = "use"
    /\ \/ callers' = Set(t, Idle)
       \/ /\ \E key \in th.ptrs : ~Live(th, key)
          /\ callers' = [callers EXCEPT !.killed = TRUE]
    /\ UNCHANGED <<index, storage, disk, quiet>>

\* a call and its arguments
Request(layer, op, id, values, list, k) ==
    [Idle EXCEPT !.layer = layer, !.op = op, !.id = id, !.values = values,
                 !.list = list, !.k = k,
                 !.target = IF layer = "manager" THEN "docs" ELSE Direct]

ThreadRecords == <<VectorData("a", <<1>>, EmptyMap), VectorData("b", <<1>>, EmptyMap)>>

ThreadQueries == <<<<1>>, <<1>>>>

LongQueries == [i \in 1..SequentialLimit + 1 |-> <<1>>]

\* the calls threads make on one HNSWIndex
IndexRequests ==
    { Request("index", "insert", "a", <<1>>, <<>>, 0),
      Request("index", "remove", "a", <<>>, <<>>, 0),
      Request("index", "search", "", <<1>>, <<>>, 1),
      Request("index", "get", "a", <<>>, <<>>, 0),
      Request("index", "memory_usage", "", <<>>, <<>>, 0),
      Request("index", "save", "", <<>>, <<>>, 0),
      Request("index", "load", "", <<>>, <<>>, 0),
      Request("index", "batch_insert", "", <<>>, ThreadRecords, 0),
      Request("index", "batch_search", "", <<>>, ThreadQueries, 1) }

\* the calls threads make on one VectorStorage; create_collection carries
\* the dimension in k
ManagerRequests ==
    { Request("manager", "create_collection", "", <<>>, <<>>, 1),
      Request("manager", "delete_collection", "", <<>>, <<>>, 0),
      Request("manager", "insert", "a", <<1>>, <<>>, 0),
      Request("manager", "remove", "a", <<>>, <<>>, 0),
      Request("manager", "search", "", <<1>>, <<>>, 1),
      Request("manager", "get", "a", <<>>, <<>>, 0),
      Request("manager", "get_stats", "", <<>>, <<>>, 0),
      Request("manager", "save_all", "", <<>>, <<>>, 0),
      Request("manager", "batch_insert", "", <<>>, ThreadRecords, 0),
      Request("manager", "batch_search", "", <<>>, ThreadQueries, 1) }

\* the inserts a thread has still to make
Remaining(th) ==
    IF th.pc = "idle" THEN 0
    ELSE IF th.op = "insert" THEN 1
    ELSE IF th.op = "batch_insert" THEN Len(th.list) - th.i + 1
    ELSE 0

\* the index has room under the exploration bound for the inserts under way
\* and n more
Room(target, n) ==
    LET next_key == IF target = Direct THEN index.next_key
                    ELSE IF target \in DOMAIN storage.collections
                    THEN storage.collections[target].next_key
                    ELSE 1
    IN next_key + SumOver([t \in Callers |-> Remaining(callers.t[t])], Callers) + n - 1
          <= MaxKey

\* the objects made under the name and the ones being asked for stay under
\* the exploration bound
Creatable(target) ==
    callers.gen[target]
      + Cardinality({t \in Callers : /\ callers.t[t].pc # "idle"
                                     /\ callers.t[t].op \in {"create_collection",
                                                             "load_all"}})
          < MaxObjects

\* a thread enters an operation
Enter(t, request) ==
    /\ ~callers.killed
    /\ callers.t[t].pc = "idle"
    /\ Room(request.target, Remaining([request EXCEPT !.pc = "m_lock", !.i = 1]))
    /\ request.op \in {"create_collection", "load_all"} => Creatable(request.target)
    /\ callers' = Set(t, IF request.op = "load_all"
                         THEN [request EXCEPT !.pc = "reload"]
                         ELSE IF request.layer = "manager"
                         THEN [request EXCEPT !.pc = "m_lock"]
                         ELSE Begin(request))
    /\ UNCHANGED <<index, storage, disk, quiet>>

InitIndexThreads ==
    /\ \E c \in IndexConfigs : index = NewIndex(c.dimension, c.config)
    /\ disk = [p \in AllPaths |-> NoFile]
    /\ batch = NoBatch
    /\ last = Called("construct", "", TRUE)
    /\ assigned = {}
    /\ fresh = {}
    /\ storage = NewStorage
    /\ process = NoProcess
    /\ callers = Ready

InitThreads ==
    /\ storage = NewStorage
    /\ disk = [p \in AllPaths |-> NoFile]
    /\ last = Called("construct", "", TRUE)
    /\ index = NewIndex(1, DefaultHNSWConfig)
    /\ batch = NoBatch
    /\ assigned = {}
    /\ fresh = {}
    /\ process = NoProcess
    /\ callers = Ready

NextIndexThreads ==
    \/ \E t \in Callers, request \in IndexRequests : Enter(t, request)
    \/ \E t \in Callers : Check(t)
    \/ \E t \in Callers : LockIndex(t)
    \/ \E t \in Callers : Body(t)
    \/ \E t \in Callers : Use(t)

SpecIndexThreads == InitIndexThreads /\ [][NextIndexThreads]_vars

NextThreads ==
    \/ \E t \in Callers, request \in ManagerRequests : Enter(t, request)
    \/ \E t \in Callers : LockManager(t)
    \/ \E t \in Callers : Resolve(t)
    \/ \E t \in Callers, config \in CollectionConfigs : Create(t, config)
    \/ \E t \in Callers : Delete(t)
    \/ \E t \in Callers : Check(t)
    \/ \E t \in Callers : LockIndex(t)
    \/ \E t \in Callers : Body(t)
    \/ \E t \in Callers : UnlockManager(t)
    \/ \E t \in Callers : Use(t)

SpecThreads == InitThreads /\ [][NextThreads]_vars

\* one caller sends batches of more than 100 queries while the others
\* create and delete the collection and insert into it and remove from it
LongCallers == {1}

LongRequests == {Request("manager", "batch_search", "", <<>>, LongQueries, 1)}

WriterRequests ==
    {r \in ManagerRequests :
        r.op \in {"create_collection", "delete_collection", "insert", "remove"}}

\* a step of thread t, caller or worker
Step(t) ==
    \/ LockManager(t)
    \/ Resolve(t)
    \/ \E config \in CollectionConfigs : Create(t, config)
    \/ Delete(t)
    \/ Check(t)
    \/ LockIndex(t)
    \/ Body(t)
    \/ Spawn(t)
    \/ JoinWorker(t)
    \/ UnlockManager(t)

NextWorkerThreads ==
    \/ \E t \in LongCallers, request \in LongRequests : Enter(t, request)
    \/ \E t \in Callers \ LongCallers, request \in WriterRequests : Enter(t, request)
    \/ \E t \in Callers \cup Workers : Step(t)

\* a thread that can take a step is scheduled, and a thread waiting for a
\* mutex_ that is free again and again gets it
SpecWorkerThreads ==
    /\ InitThreads
    /\ [][NextWorkerThreads]_vars
    /\ \A t \in Callers \cup Workers : SF_vars(Step(t))

(***************************************************************************)
(* Properties of HNSWIndex.                                                *)
(***************************************************************************)
\* what a caller of get(id) sees: nothing, or the record pointed to
Fetched(ix, id) ==
    LET ptr == get(ix, id) IN
    IF ptr.null THEN [found |-> FALSE]
    ELSE [found |-> TRUE, record |-> ix.data[ptr.key]]

\* the ids a call may be given: chosen ones, generated ones, none
CallIds == KnownIds \cup {""}

\* id is in no answer search or batch_search may give on ix
InNoAnswer(ix, id) ==
    /\ \A q \in Vectors, k \in 0..MaxK : \A r \in search(ix, q, k) :
          r.ok => \A i \in 1..Len(r.ret) : r.ret[i].id # id
    /\ \A qs \in QueryBatches, k \in 0..MaxK : \A r \in batch_search(ix, qs, k) :
          r.ok => \A n \in 1..Len(r.ret) : \A i \in 1..Len(r.ret[n]) :
                     r.ret[n][i].id # id

\* a successful insert(v, id, metadata) leaves an index on which get(id)
\* returns the record (id, v, metadata)
C1_Stored ==
    \A p \in Payloads, id \in CallIds, now \in NowValues :
        LET r == insert(index, p.values, id, p.metadata, now) IN
        r.ok => Fetched(r.ix, r.ret) =
                    [found |-> TRUE, record |-> VectorData(r.ret, p.values, p.metadata)]

\* a step that is neither remove(id) nor load (nor the start of another
\* index object) leaves what get(id) returns as it was
C1_Kept ==
    \A id \in DOMAIN index.id_to_key :
        (/\ ~(last'.op = "remove" /\ last'.id = id)
         /\ last'.op \notin {"load", "construct"})
        => Fetched(index', id) = Fetched(index, id)

\* C1: after insert(v, id, metadata) has returned successfully, every later
\* get(id), from whatever thread, with no remove(id) and no load in between,
\* returns a record equal to (id, v, metadata).
C1_InsertThenGet == []C1_Stored /\ [][C1_Kept]_vars

\* get("a") found the record inserted with metadata, another insert having
\* taken place since
C1_Witness ==
    /\ last = Called("get", "a", TRUE)
    /\ size(index) = 2
    /\ Fetched(index, "a") =
          [found |-> TRUE, record |-> VectorData("a", <<1>>, [type |-> "test"])]

\* C2: insert with an id that is present fails and leaves the record get
\* returns for that id, size() and the key counter as they were.
C2_DuplicateInsertFails ==
    \A p \in Payloads, id \in DOMAIN index.id_to_key, now \in NowValues :
        LET r == insert(index, p.values, id, p.metadata, now) IN
        /\ ~r.ok
        /\ Fetched(r.ix, id) = Fetched(index, id)
        /\ size(r.ix) = size(index)
        /\ r.ix.next_key = index.next_key

\* a second insert of "a" has just been refused as a duplicate and the
\* counter stands where the first insert left it
C2_Witness ==
    /\ last.op = "insert"
    /\ last.error = "ID already exists: a"
    /\ Cardinality(DOMAIN index.data) = 1
    /\ index.next_key = 2

\* remove(id) returning true takes size() down by one and leaves id absent
\* from get and from every search answer
C3_Removed ==
    \A id \in KnownIds :
        LET r == remove(index, id) IN
        r.ret => /\ size(r.ix) = size(index) - 1
                 /\ get(r.ix, id).null
                 /\ InNoAnswer(r.ix, id)

\* an id get does not find is in no search answer
C3_AbsentFromSearch ==
    \A id \in KnownIds : get(index, id).null => InNoAnswer(index, id)

\* an id get does not find stays so across every step but a successful
\* insert of it and a load
C3_StaysAbsent ==
    \A id \in KnownIds :
        (/\ get(index, id).null
         /\ ~(last'.op = "insert" /\ last'.ok /\ last'.id = id)
         /\ last'.op \notin {"load", "construct"})
        => get(index', id).null

\* C3, amended: after remove(id) has returned true, size() is one less than
\* before and, until id is inserted again or the index is reloaded by load,
\* get(id) returns absent and no search or batch_search contains id.
C3_RemoveThenAbsent ==
    [](C3_Removed /\ C3_AbsentFromSearch) /\ [][C3_StaysAbsent]_vars

\* "a" has just been removed from an index that still holds another record
C3_Witness ==
    /\ last = Called("remove", "a", TRUE)
    /\ size(index) = 1
    /\ get(index, "a").null

\* C3 as stated: after remove(id) has returned true, size() is one less and
\* id stays absent from get and from every search until id is inserted
\* again - here for the step that follows the remove.
C3_AbsentUntilInsertedAgain ==
    [][/\ (last'.op = "remove" /\ last'.ok) => size(index') = size(index) - 1
       /\ (/\ last.op = "remove" /\ last.ok
           /\ ~(last'.op = "insert" /\ last'.ok /\ last'.id = last.id)
           /\ last'.op # "construct")
          => get(index', last.id).null /\ InNoAnswer(index', last.id)]_vars

\* the answers are in non-decreasing order of distance
Sorted(results) ==
    \A i \in 1..Len(results) - 1 : results[i].distance <= results[i + 1].distance

\* C4: for every index state, every query of the index's dimension and
\* every k, search(q, k) returns at most min(k, size()) results, in
\* non-decreasing order of score.
C4_SearchBounded ==
    \A q \in Vectors, k \in 0..MaxK :
        Len(q) = index.dimension =>
            \A r \in search(index, q, k) :
                /\ r.ok
                /\ Len(r.ret) <= Min(k, size(index))
                /\ Sorted(r.ret)

\* a search has just answered on an index of two records
C4_Witness ==
    /\ last = Called("search", "", TRUE)
    /\ size(index) = 2
    /\ \E r \in search(index, <<0>>, 1) : Len(r.ret) = 1

InsertAvoids(keys) ==
    \A p \in Payloads, id \in CallIds, now \in NowValues :
        LET r == insert(index, p.values, id, p.metadata, now) IN
        r.ok => r.ix.id_to_key[r.ret] \notin keys

\* save writes the counter, and a load that succeeds sets the counter to the
\* value in the file
CounterRestored ==
    /\ \A path \in IndexPaths :
          save(index, disk, path)[MetaPath(path)].next_key = index.next_key
    /\ \A path \in IndexPaths, keep \in BOOLEAN :
          LET r == load(index, disk, path, keep) IN
          r.ret => r.ix.next_key = disk[MetaPath(path)].next_key

\* C6, amended: the key a successful insert assigns is the key of no record
\* the index holds and of no insert since the index was constructed or last
\* loaded; after load the counter equals the value it had when the file was
\* saved.
C6_KeyFreshSinceLoad ==
    /\ InsertAvoids(fresh \cup DOMAIN index.data)
    /\ CounterRestored

\* an insert has succeeded after a load that followed earlier inserts
C6_Witness ==
    /\ last.op = "insert" /\ last.ok
    /\ fresh # {}
    /\ fresh # assigned

\* C6 as stated: the key a successful insert assigns was assigned by no
\* earlier insert on the same index object, whatever inserts, removes, saves
\* and loads came between; after load the counter equals the saved value.
C6_KeyNeverReused ==
    /\ InsertAvoids(assigned)
    /\ CounterRestored

\* C7 as stated: every stored record's vector has dimension() elements; an
\* insert of a vector of another length fails and changes nothing, and no
\* other operation, load included, brings in a record of another length.
C7_DimensionKept ==
    /\ \A key \in DOMAIN index.data : Len(index.data[key].values) = index.dimension
    /\ \A p \in Payloads, id \in CallIds, now \in NowValues :
          LET r == insert(index, p.values, id, p.metadata, now) IN
          Len(p.values) # index.dimension => ~r.ok /\ r.ix = index

\* C8 as stated: once size() has reached max_elements, insert fails with
\* the capacity error and adds no record; size() never exceeds max_elements.
C8_CapacityRespected ==
    /\ size(index) <= index.config.max_elements
    /\ \A p \in Payloads, id \in CallIds, now \in NowValues :
          LET r == insert(index, p.values, id, p.metadata, now) IN
          (/\ size(index) >= index.config.max_elements
           /\ Len(p.values) = index.dimension
           /\ id \notin DOMAIN index.id_to_key)
          => /\ ~r.ok
             /\ r.error = "Reserve capacity ahead of insertions!"
             /\ size(r.ix) = size(index)
             /\ r.ix.data = index.data

\* the step is a turn of batch_insert's loop
IsBatchStep == batch.active /\ batch' # batch

\* the record at its turn has the index's dimension and an id not present
ValidAtTurn ==
    LET v == batch.vectors[batch.i] IN
    /\ Len(v.values) = index.dimension
    /\ \A now \in NowValues :
          (IF v.id = "" THEN generate_id(index, now) ELSE v.id)
              \notin DOMAIN index.id_to_key

\* the record of this turn is in the index after the step
InsertedAtTurn ==
    LET v == batch.vectors[batch.i] IN
    /\ last'.ok
    /\ Fetched(index', last'.id) =
          [found |-> TRUE, record |-> VectorData(last'.id, v.values, v.metadata)]

\* a turn never ends the call early, and counts the record iff it went in
TurnAbsorbed ==
    /\ batch'.i = batch.i + 1
    /\ batch'.active = (batch.i < Len(batch.vectors))
    /\ batch'.count = batch.count + (IF last'.ok THEN 1 ELSE 0)
    /\ last'.ok = (size(index') = size(index) + 1)

\* the primitive has room for one more member
BelowCapacity == Cardinality(DOMAIN index.us.vectors) < index.us.capacity

\* C9, amended: batch_insert never fails because of a record; what it
\* returns is the number of records whose insert succeeded and equals the
\* growth of size() the call caused; a record that is valid at its turn is
\* inserted, earlier rejections notwithstanding, when the index is below
\* the capacity reserved in the graph primitive.
C9_BatchAbsorbs ==
    /\ [](batch.count = batch.grown)
    /\ [][IsBatchStep =>
            /\ TurnAbsorbed
            /\ (ValidAtTurn /\ BelowCapacity) => InsertedAtTurn]_vars

\* a batch of two has returned 1: its first record was rejected and its
\* second went in
C9_Witness ==
    /\ ~batch.active
    /\ Len(batch.vectors) = 2
    /\ batch.count = 1
    /\ last.op = "batch_record" /\ last.ok

\* C9 as stated: every record that is valid at its turn is inserted.
C9_EveryValidInserted ==
    /\ [](batch.count = batch.grown)
    /\ [][IsBatchStep =>
            /\ TurnAbsorbed
            /\ ValidAtTurn => InsertedAtTurn]_vars

(***************************************************************************)
(* Properties of VectorStorage.                                            *)
(***************************************************************************)
\* the collection is there and empty for every reading and data-plane
\* operation on st
VisibleAndEmpty(st, config) ==
    LET name == config.name
        stats == get_stats(st, name)
    IN
    /\ name \in list_collections(st)
    /\ collection_exists(st, name)
    /\ stats.has_value /\ stats.vector_count = 0 /\ stats.dimension = config.dimension
    /\ \A id \in Ids :
          /\ storage_get(st, name, id).null
          /\ storage_remove(st, name, id) = Return(st, FALSE)
    /\ \A q \in Vectors, k \in 1..MaxK :
          Len(q) = config.dimension =>
              storage_search(st, name, q, k) = {Return(st, <<>>)}
    /\ \A p \in Payloads, id \in InsertIds, now \in NowValues :
          Len(p.values) = config.dimension =>
              LET r == storage_insert(st, name, p.values, id, p.metadata, now) IN
              r.ok /\ size(r.ix.collections[name]) = 1

FilesOf(name) ==
    {config_path(name), collection_path(name), MetaPath(collection_path(name))}

\* C11 as stated: after delete_collection(name) has returned true,
\* list_collections() does not contain name, get_stats(name) reports
\* not-found, and no file of the collection (configuration, index, payload
\* sidecar) remains in the data directory.
C11_DeleteLeavesNothing ==
    \A name \in CollectionNames :
        LET r == delete_collection(storage, disk, name) IN
        r.ret => /\ name \notin list_collections(r.st)
                 /\ get_stats(r.st, name) = NoStats
                 /\ \A path \in FilesOf(name) : ~r.dsk[path].exists

\* two outcomes look the same to the caller: both return the same value or
\* both throw the same message
SameOutcome(r1, r2) ==
    /\ r1.ok = r2.ok
    /\ r1.ok => r1.ret = r2.ret
    /\ ~r1.ok => r1.error = r2.error

\* C12 as stated: for each data-plane passthrough, a call naming a
\* collection that does not exist has an outcome distinguishable from every
\* outcome the same call can have on an existing collection.
C12_UnknownCollectionDistinct ==
    \A c \in CollectionNames \ DOMAIN storage.collections,
       e \in DOMAIN storage.collections :
        /\ \A p \in Payloads, id \in InsertIds, now \in NowValues :
              ~SameOutcome(storage_insert(storage, c, p.values, id, p.metadata, now),
                           storage_insert(storage, e, p.values, id, p.metadata, now))
        /\ \A vs \in Batches, now \in NowValues :
              ~SameOutcome(storage_batch_insert(storage, c, vs, now),
                           storage_batch_insert(storage, e, vs, now))
        /\ \A id \in Ids :
              ~SameOutcome(storage_remove(storage, c, id), storage_remove(storage, e, id))
        /\ \A q \in Vectors, k \in 1..MaxK :
              \A r1 \in storage_search(storage, c, q, k),
                 r2 \in storage_search(storage, e, q, k) : ~SameOutcome(r1, r2)
        /\ \A qs \in QueryBatches, k \in 1..MaxK :
              \A r1 \in storage_batch_search(storage, c, qs, k),
                 r2 \in storage_batch_search(storage, e, qs, k) : ~SameOutcome(r1, r2)
        /\ \A id \in Ids :
              storage_get(storage, c, id).null # storage_get(storage, e, id).null

\* the (id, values, metadata) records an index holds
Records(ix) == Range(ix.data)

\* C13: after save_all, a new VectorStorage constructed on the same data
\* directory lists the same collection names and holds, in each
\* collection, the same set of (id, values, metadata) records.
C13_ManagerRoundTrip ==
    \A keep \in BOOLEAN :
        LET r == OpenStorage(save_all(storage, disk), keep) IN
        /\ r.ok
        /\ list_collections(r.ix) = list_collections(storage)
        /\ \A name \in list_collections(storage) :
              Records(r.ix.collections[name]) = Records(storage.collections[name])

\* a manager reconstructed after save_all holds "docs" with the record
\* inserted before and "imgs" after an insert and a remove
C13_Witness ==
    /\ last = Called("restart", "", TRUE)
    /\ list_collections(storage) = {"docs", "imgs"}
    /\ Records(storage.collections["docs"]) = {VectorData("a", <<1>>, [type |-> "test"])}
    /\ Records(storage.collections["imgs"]) = {}
    /\ storage.collections["imgs"].next_key = 2

\* C14: after save(path) on an index and load(path) on a fresh index of
\* the same dimension, the loaded index has size() equal to the number of
\* live records at save time, and get(id) returns an equal record for
\* exactly the ids live at save time; ids removed before the save are
\* absent.
C14_IndexRoundTrip ==
    \A path \in IndexPaths, keep \in BOOLEAN, c \in IndexConfigs :
        LET r == load(NewIndex(index.dimension, c.config),
                      save(index, disk, path), path, keep)
        IN /\ r.ret
           /\ size(r.ix) = Cardinality(DOMAIN index.id_to_key)
           /\ size(r.ix) = size(index)
           /\ \A id \in KnownIds \cup DOMAIN r.ix.id_to_key :
                 Fetched(r.ix, id) = Fetched(index, id)

\* a fresh index has loaded a file saved after two inserts and a remove:
\* it holds the one record that was live, of its own dimension
C14_Witness ==
    /\ last = Called("load", "", TRUE)
    /\ assigned = {}
    /\ index.next_key = 3
    /\ size(index) = 1
    /\ \A key \in DOMAIN index.data : Len(index.data[key].values) = index.dimension

\* C15 as stated: when loading a collection fails (missing, truncated or
\* undecodable index or payload file), the manager ends with the collection
\* absent from the name-to-index map and from the name-to-config map; no
\* collection is left partially loaded.
C15_FailedLoadLeavesNothing ==
    \A keep \in BOOLEAN :
        LET r == OpenStorage(disk, keep) IN
        r.ok => \A name \in CollectionNames :
                    name \notin DOMAIN r.ix.collections
                        => name \notin DOMAIN r.ix.configs

\* every file of the collection is in the data directory, undamaged
SoundCollection(name) == \A path \in FilesOf(name) : Sound(disk[path])

\* C16 as stated: during load_all a failure to load one collection
\* (corrupt configuration, index or payload file) does not keep the other
\* collections of the data directory from being loaded, and the
\* construction of the manager completes.
C16_LoadAllGoesOn ==
    \A keep \in BOOLEAN :
        LET r == OpenStorage(disk, keep) IN
        /\ r.ok
        /\ \A name \in CollectionNames :
              SoundCollection(name) => name \in list_collections(r.ix)

\* what VectorStorage::get gives a caller for the id in the collection
StoredUnder(st, collection, id) ==
    IF collection \notin DOMAIN st.collections
    THEN [found |-> FALSE]
    ELSE Fetched(st.collections[collection], id)

\* C17: an update of a stored record removes it and inserts the new values
\* under the same id; when that insert fails the id is left without a record,
\* and when the id was not stored the update answers 404 and the collections
\* are as they were.
C17_UpdateIsRemoveThenInsert ==
    [][last'.op = "update" =>
        LET c == last'.collection
            id == last'.id
            before == StoredUnder(storage, c, id)
            after == StoredUnder(storage', c, id)
        IN /\ ~before.found =>
                /\ last'.status = 404
                /\ storage' = storage
           /\ before.found =>
                /\ last'.status \in {200, 500}
                /\ last'.status = 200 =>
                      /\ last'.answer = id
                      /\ after.found
                      /\ after.record.id = id
                      /\ after.record.values = last'.values
                      /\ after.record.metadata = last'.metadata
                      /\ size(storage'.collections[c]) = size(storage.collections[c])
                /\ last'.status = 500 =>
                      /\ ~after.found
                      /\ size(storage'.collections[c]) = size(storage.collections[c]) - 1
    ]_vars

\* an update of a stored record failed at its insert and the id is gone
C17_Witness ==
    /\ last.op = "update"
    /\ last.removed
    /\ last.status = 500
    /\ ~StoredUnder(storage, last.collection, last.id).found

\* C18: batch_search gives one list per query, the i-th being what search
\* gives for the i-th query, on lists the calling thread searches itself
\* and on lists shared out to worker tasks.
C18_BatchSearchIsSearch ==
    /\ \A qs \in QueryBatches, k \in 1..MaxK :
          \A r \in batch_search(index, qs, k) :
              r.ok => /\ Len(r.ret) = Len(qs)
                      /\ \A i \in 1..Len(qs) : r.ret[i] \in SearchAnswers(index, qs[i], k)
    /\ (last.op = "batch_search" /\ last.ok) =>
          /\ Len(last.results) = Len(last.queries)
          /\ \A i \in 1..Len(last.queries) :
                last.results[i] = SearchAnswers(index, last.queries[i], last.k)

\* a query of the list has not the dimension of the index
WrongDimension(ix, queries) == \E i \in 1..Len(queries) : Len(queries[i]) # ix.dimension

\* C19: batch_search leaves, by return or by exception, when none of its
\* worker tasks is running any more, and with a query of the wrong dimension
\* in the list it leaves by exception, on both paths.
C19_JoinedBeforeLeaving ==
    /\ [](\A qs \in QueryBatches, k \in 1..MaxK :
            WrongDimension(index, qs) => \A r \in batch_search(index, qs, k) : ~r.ok)
    /\ [][last'.op = "batch_search" =>
            /\ batch.active => \A t \in DOMAIN batch.futures :
                                  batch.futures[t].state # "running"
            /\ WrongDimension(index, last'.queries) =>
                  /\ ~last'.ok
                  /\ last'.results = <<>>
         ]_vars

\* what is on the disk is what save_all writes for the collections
AllSaved == process.saved /\ disk = save_all(storage, disk)

\* C20: once SIGINT or SIGTERM was received every collection gets saved,
\* and the process does not end before that.
C20_SignalSavesAll ==
    /\ [](process.signals > 0 /\ process.pc \in {"exited", "aborted"} => AllSaved)
    /\ (process.signals > 0) ~> AllSaved

\* the score the metric gives two vectors
Score(ix, a, b) == Distance(ix.config.metric, a, b)

\* the places of the record in an answer of search
PlacesOf(answer, id) == {i \in 1..Len(answer) : answer[i].id = id}

\* C21: searching for the values of a live record returns that record, with
\* the score 0, which no other record undercuts.
C21_SelfIsTopResult ==
    \A key \in DOMAIN index.data, k \in 1..MaxK :
        LET rec == index.data[key] IN
        \A r \in search(index, rec.values, k) :
            /\ r.ok
            /\ \E i \in PlacesOf(r.ret, rec.id) :
                  /\ r.ret[i].distance = 0
                  /\ \A j \in 1..Len(r.ret) : r.ret[i].distance <= r.ret[j].distance

\* C21 as amended: under the Euclidean and the cosine metric the score of a
\* live record for its own values is 0 and no live record scores lower, so
\* wherever an answer of search holds the record it holds it with score 0
\* and nothing before it scores higher.
C21_SelfScoresLowest ==
    \A key \in DOMAIN index.data, k \in 1..MaxK :
        LET rec == index.data[key] IN
        index.config.metric \in {"Euclidean", "Cosine"} =>
            /\ Score(index, rec.values, rec.values) = 0
            /\ \A other \in DOMAIN index.data :
                  Score(index, rec.values, index.data[other].values) >= 0
            /\ \A r \in search(index, rec.values, k) :
                  /\ r.ok
                  /\ \A i \in PlacesOf(r.ret, rec.id) :
                        /\ r.ret[i].distance = 0
                        /\ \A j \in 1..i : r.ret[j].distance <= r.ret[i].distance

\* a cosine or Euclidean index holds two records of different values and
\* was searched
C21_Witness ==
    /\ index.config.metric \in {"Euclidean", "Cosine"}
    /\ last.op = "search"
    /\ last.ok
    /\ \E k1, k2 \in DOMAIN index.data :
          Score(index, index.data[k1].values, index.data[k2].values) > 0

\* VectorStorage::load_all called on a manager in use.  It takes no lock:
\* load_config writes configs_ and load_collection puts a new index object
\* into collections_, which destroys the one that was there.  Done while
\* another thread is inside an operation of the manager it is a data race,
\* and the process may be killed by it.
LoadAll(t) ==
    LET th == callers.t[t] IN
    /\ ~callers.killed
    /\ th.pc = "reload"
    /\ \/ \E keep \in BOOLEAN :
             LET r == load_all(storage, disk, keep)
                 replaced == {n \in LockNames :
                                 /\ disk[config_path(n)].exists
                                 /\ disk[collection_path(n)].exists
                                 /\ load_collection(storage, disk, n, keep).ok
                                 /\ load_collection(storage, disk, n, keep).ret}
             IN /\ storage' = r.ix
                /\ callers' = [callers EXCEPT
                      !.gen = [n \in Targets |-> IF n \in replaced THEN @[n] + 1 ELSE @[n]],
                      !.mutex = [n \in Targets |-> IF n \in replaced THEN Unlocked ELSE @[n]],
                      !.t[t] = Idle]
       \/ /\ \E u \in Callers \ {t} : Holds(callers.manager, u)
          /\ storage' = storage
          /\ callers' = [callers EXCEPT !.killed = TRUE]
    /\ UNCHANGED <<index, disk, quiet>>

ReloadRequests ==
    {r \in ManagerRequests : r.op \in {"create_collection", "insert", "save_all"}}
        \cup {Request("manager", "load_all", "", <<>>, <<>>, 0)}

NextReload ==
    \/ \E t \in Callers, request \in ReloadRequests : Enter(t, request)
    \/ \E t \in Callers : LockManager(t)
    \/ \E t \in Callers : Resolve(t)
    \/ \E t \in Callers, config \in CollectionConfigs : Create(t, config)
    \/ \E t \in Callers : Check(t)
    \/ \E t \in Callers : LockIndex(t)
    \/ \E t \in Callers : Body(t)
    \/ \E t \in Callers : UnlockManager(t)
    \/ \E t \in Callers : LoadAll(t)

SpecReload == InitThreads /\ [][NextReload]_vars

(***************************************************************************)
(* Properties of the locking.                                              *)
(***************************************************************************)
\* thread t is inside an HNSWIndex operation, holding the lock it took
Inside(t) == callers.t[t].pc = "i_body"

\* thread t is inside insert, remove or load
Mutating(t) == Inside(t) /\ callers.t[t].call \in {"insert", "remove", "load"}

\* no other thread is inside an operation on the index thread t works on
Alone(t) ==
    \A u \in (Callers \cup Workers) \ {t} :
        ~(Inside(u) /\ callers.t[u].target = callers.t[t].target)

\* C22: on one index a thread that is inside insert, remove or load is the
\* only thread inside any operation of that index, and the index changes
\* only in a step of such a thread: never while a search, get,
\* memory_usage or save of another thread holds the lock shared.
C22_MutationExcludesAll ==
    /\ [](\A t \in Callers : Mutating(t) => Alone(t))
    /\ [][index' # index => \E t \in Callers : Mutating(t) /\ Alone(t) /\ ~Inside(t)']_vars

\* a thread is inside insert, remove or load while a search waits for the lock
C22_Witness ==
    \E t, u \in Callers :
        /\ Mutating(t)
        /\ callers.t[u].pc = "i_lock"
        /\ callers.t[u].call = "search"
        /\ index.num_elements > 0

\* thread t is in batch_insert, past its first record and not past its last
MidBatch(t) ==
    /\ callers.t[t].op = "batch_insert"
    /\ callers.t[t].i >= 2
    /\ callers.t[t].pc \in {"check", "i_lock", "i_body"}

\* C23: batch_insert holds the index lock exclusively from its first record
\* to its last, so between two records of a batch no other thread is inside
\* an operation of the index.
C23_BatchUnderOneLock ==
    \A t \in Callers :
        MidBatch(t) => /\ callers.mutex[callers.t[t].target].ex = t
                       /\ Alone(t)

\* C23 as amended: batch_insert takes the lock once per record, inside
\* insert.  While a record is inserted the thread holds the lock
\* exclusively and is alone in the index, and that step adds at most one
\* record; between two records it holds no lock.
C23_BatchLocksPerRecord ==
    /\ [](\A t \in Callers :
            callers.t[t].op = "batch_insert" =>
                /\ Inside(t) => /\ callers.mutex[callers.t[t].target].ex = t
                                 /\ Alone(t)
                /\ ~Inside(t) => ~Holds(callers.mutex[callers.t[t].target], t))
    /\ [][\A t \in Callers :
            (callers.t[t].op = "batch_insert" /\ Inside(t) /\ ~Inside(t)') =>
                /\ DOMAIN index.data \subseteq DOMAIN index'.data
                /\ Cardinality(DOMAIN index'.data) <= Cardinality(DOMAIN index.data) + 1]_vars

\* a search is inside the index between the two records of a batch, the
\* first of them stored and the second not
C23_Witness ==
    \E t, u \in Callers :
        /\ MidBatch(t)
        /\ ~Inside(t)
        /\ Inside(u)
        /\ callers.t[u].call \in {"search", "get"}
        /\ "a" \in DOMAIN index.id_to_key
        /\ "b" \notin DOMAIN index.id_to_key

\* thread t is in the index operation a passthrough of the manager called
InIndex(t) ==
    /\ callers.t[t].layer = "manager"
    /\ callers.t[t].pc \in {"check", "i_lock", "i_body", "spawn", "join"}

\* thread t waits for the manager's lock in create_collection or
\* delete_collection
WaitsForManager(t) ==
    /\ callers.t[t].pc = "m_lock"
    /\ callers.t[t].op \in {"create_collection", "delete_collection"}

\* C24: a passthrough has given the manager's lock back before it takes the
\* lock of the index, so a thread in an index operation does not hold the
\* manager's lock and create_collection and delete_collection can take it.
C24_ManagerReleasedBeforeIndex ==
    /\ \A t \in Callers : InIndex(t) => ~Holds(callers.manager, t)
    /\ \A u \in Callers :
          (WaitsForManager(u) /\ \E t \in Callers : InIndex(t)) => CanLock(callers.manager)

\* C24 as amended: a passthrough holds the manager's lock shared from the
\* lookup of the name until the index operation has returned, and takes and
\* gives back the lock of the index inside it.  While a thread is in an
\* index operation nobody holds the manager's lock exclusively, and
\* create_collection and delete_collection cannot take it.
C24_ManagerHeldThroughIndex ==
    \A t \in Callers :
        InIndex(t) => /\ t \in callers.manager.sh
                      /\ callers.manager.ex = 0
                      /\ ~CanLock(callers.manager)
                      /\ Holds(callers.mutex[callers.t[t].target], t) => Inside(t)

\* a thread is inside an index operation of a passthrough and another
\* waits for the manager's lock in delete_collection
C24_Witness ==
    \E t, u \in Callers :
        /\ InIndex(t)
        /\ Inside(t)
        /\ WaitsForManager(u)
        /\ callers.t[u].op = "delete_collection"

\* C26: a thread in an index operation of a passthrough (insert,
\* batch_insert, remove, search, batch_search, get, memory_usage of
\* get_stats, save of save_all) works on an index object that is still in
\* collections_, and a collection is erased only when no thread is in an
\* index operation.
C26_IndexOutlivesItsCallers ==
    /\ [](\A t \in Callers \cup Workers : InIndex(t) => Alive(callers.t[t]))
    /\ [][DOMAIN storage'.collections # DOMAIN storage.collections
             => \A t \in Callers \cup Workers : ~InIndex(t)]_vars

\* delete_collection has destroyed an index that held a record while a
\* passthrough of another thread waits for the manager's lock
C26_Witness ==
    \E t, u \in Callers :
        /\ callers.t[u].op = "delete_collection"
        /\ callers.t[u].pc = "m_unlock"
        /\ callers.t[u].ok
        /\ callers.t[t].pc = "m_lock"
        /\ callers.t[t].op \in {"insert", "batch_insert", "remove", "search",
                                 "batch_search", "get", "get_stats", "save_all"}
        /\ disk[config_path("docs")] = NoFile

\* thread t is about to write collections_ and configs_
Modifies(t) ==
    \/ /\ callers.t[t].pc = "m_body"
       /\ callers.t[t].op \in {"create_collection", "delete_collection"}
    \/ callers.t[t].pc = "reload"

\* C25: a thread that writes collections_ and configs_ in create_collection,
\* delete_collection or load_all holds the manager's lock exclusively, and
\* no other thread is inside an operation of the manager at that time.
C25_MapsChangeUnderExclusiveLock ==
    \A t \in Callers :
        Modifies(t) => /\ callers.manager.ex = t
                       /\ \A u \in Callers \ {t} :
                             callers.t[u].pc \in {"idle", "m_lock", "use", "reload"}

\* C27: when a caller reads a record through a pointer that get or search
\* returned, the record is still in data_ of the index it came from,
\* whatever remove or delete_collection another thread has run since.
C27_PointersStayLive ==
    \A t \in Callers :
        callers.t[t].pc = "use" => \A key \in callers.t[t].ptrs : Live(callers.t[t], key)

\* the record stored under the id of the last request, if any
FaqStored ==
    LET p == storage_get(storage, last.collection, last.id) IN
    IF p.null THEN <<>> ELSE <<storage.collections[last.collection].data[p.key]>>

\* C28: handle_update_faq on a stored record reads no field of the old
\* record after remove has erased it, and when it answers 200 the record
\* stored under the id holds the values and each of question, answer and
\* category from the request, or from the old record if the request left
\* it out.
C28_OldRecordReadBeforeRemove ==
    (last.op \in {"update_faq", "killed"} /\ last.old # <<>>) =>
        /\ last.late = {}
        /\ last.status = 200 =>
              /\ FaqStored # <<>>
              /\ FaqStored[1].values
                    = IF last.values = <<>> THEN last.old[1].values ELSE last.values
              /\ \A f \in {"question", "answer", "category"} :
                    FaqStored[1].metadata[f]
                      = IF last[f] = "" THEN last.old[1].metadata[f] ELSE last[f]

\* thread t is in batch_search, past its first query and not past its last
MidSearch(t) ==
    /\ callers.t[t].op = "batch_search"
    /\ callers.t[t].i >= 2
    /\ callers.t[t].pc \in {"check", "i_lock", "i_body"}

\* C30: batch_search holds the index lock shared from its first query to
\* its last, and every query of the batch finds the index as the first
\* query found it.
C30_BatchUnderOneReadLock ==
    \A t \in Callers :
        /\ MidSearch(t) => t \in callers.mutex[callers.t[t].target].sh
        /\ (MidSearch(t) /\ Inside(t)) => callers.t[t].first = <<index>>

\* C30 as amended: batch_search takes the lock once per query, inside
\* search.  While a query is answered the thread holds the lock shared, no
\* thread is inside insert, remove or load and the index does not change;
\* between two queries the thread holds no lock.
C30_BatchLocksPerQuery ==
    /\ [](\A t \in Callers :
            callers.t[t].op = "batch_search" =>
                /\ Inside(t) => /\ t \in callers.mutex[callers.t[t].target].sh
                                 /\ \A u \in Callers : ~Mutating(u)
                /\ ~Inside(t) => ~Holds(callers.mutex[callers.t[t].target], t))
    /\ [][\A t \in Callers :
            (callers.t[t].op = "batch_search" /\ Inside(t)) => index' = index]_vars

\* the second query of a batch is answered against an index that has
\* changed since the first was
C30_Witness ==
    \E t \in Callers :
        /\ MidSearch(t)
        /\ Inside(t)
        /\ callers.t[t].first # <<index>>

\* thread t has entered an operation and not left it
Busy(t) == callers.t[t].pc \notin {"idle", "use"}

\* thread t holds the lock of some index
HoldsIndex(t) == \E n \in Targets : Holds(callers.mutex[n], t)

\* some thread inside an operation can take its next step
CanStep == ENABLED (\E t \in Callers \cup Workers : Step(t))

\* C29: a thread takes the manager's lock holding no lock of an index, no
\* thread waits for a lock it holds, whenever a thread is inside an
\* operation some thread inside one can take a step, and every operation a
\* thread has entered is left again, the batch_search with workers and
\* create_collection and delete_collection included.
C29_OrderedLocksNoDeadlock ==
    /\ [](\A t \in Callers \cup Workers :
            /\ callers.t[t].pc = "m_lock" => ~HoldsIndex(t) /\ ~Holds(callers.manager, t)
            /\ callers.t[t].pc = "i_lock" => ~HoldsIndex(t))
    /\ []((\E t \in Callers : Busy(t)) => CanStep)
    /\ \A t \in Callers : Busy(t) ~> ~Busy(t)

(***************************************************************************)
(* Properties of the worker tasks of batch_search.                         *)
(***************************************************************************)
\* the indices the tasks of the running call were started for, each as
\* often as a task has it in its range
RangesOf(futures) ==
    [i \in 0..Len(batch.queries) - 1 |->
        Cardinality({t \in DOMAIN futures :
                        futures[t].start_idx <= i /\ i < futures[t].end_idx})]

\* a batch_search of more than 100 queries has got past its start
Started == batch.active /\ Len(batch.queries) > SequentialLimit

\* C31: in every batch_search of more than 100 queries each index 0..n-1
\* is in the range of exactly one worker task, so the ranges are pairwise
\* disjoint and cover the batch, and the number of tasks is
\* min(hardware parallelism, n/100, 32).
C31_RangesPartitionTheBatch ==
    Started =>
        /\ \A i \in 0..Len(batch.queries) - 1 : RangesOf(batch.futures)[i] = 1
        /\ Len(batch.futures) =
              Min(Min(batch.hardware, Len(batch.queries) \div 100), 32)

\* C32: in every batch_search of more than 100 queries, whatever the
\* platform reports as hardware parallelism, 0 included, the worker count
\* is at least 1 and the call is not ended by the division of the chunk
\* size.
C32_WorkerCountPositive ==
    /\ Started =>
          /\ num_threads(Len(batch.queries), batch.hardware) >= 1
          /\ batch.phase # "killed"
    /\ last.op = "batch_search" /\ Len(last.queries) > SequentialLimit =>
          num_threads(Len(last.queries), last.hardware) >= 1

(***************************************************************************)
(* Properties of the operations that only read.                            *)
(***************************************************************************)
\* what a caller can tell of an index: the record table, the id-to-key
\* map, size() and the key counter
IndexState(ix) == <<ix.data, ix.id_to_key, size(ix), ix.next_key>>

\* the state of every index object there is
IndexStates ==
    [n \in Targets |->
        IF n = Direct THEN <<IndexState(index)>>
        ELSE IF n \in DOMAIN storage.collections
        THEN <<IndexState(storage.collections[n])>>
        ELSE <<>>]

\* the operations that take the lock shared; save is reached through
\* save_all, memory_usage through get_stats, and a worker task runs search
ReadOnly ==
    {"search", "batch_search", "worker", "get", "memory_usage", "save",
     "get_stats", "save_all"}

\* the operation thread t is in during the step
StepOf(t) == IF callers.t[t].pc = "idle" THEN callers.t[t].op' ELSE callers.t[t].op

\* C33: no step of search, batch_search, get, memory_usage, save or
\* get_stats, from the call to the return and whether it returns a result
\* or fails, changes the record table, the id-to-key map, size() or the key
\* counter of any index.
C33_ReadersChangeNothing ==
    [][\A t \in Callers \cup Workers :
          callers.t[t]' # callers.t[t] /\ StepOf(t) \in ReadOnly =>
              IndexStates' = IndexStates]_vars

\* a search has handed its results back and a get_stats has returned, on
\* a collection that holds a record
C33_Witness ==
    /\ "docs" \in DOMAIN storage.collections
    /\ storage.collections["docs"].num_elements > 0
    /\ \E t, u \in Callers :
          /\ callers.t[t].op = "search" /\ callers.t[t].pc = "use"
          /\ callers.t[u].op = "get_stats" /\ callers.t[u].pc = "m_unlock"
             /\ callers.t[u].ok

(***************************************************************************)
(* Properties of load.                                                     *)
(***************************************************************************)
\* C34: when load(path) returns false, the members of the graph, the
\* record table, the id-to-key map, size() and the key counter of the
\* index are what they were before the call.
C34_FailedLoadChangesNothing ==
    [][last'.op = "load" /\ ~last'.ok =>
          /\ index'.us.vectors = index.us.vectors
          /\ IndexState(index') = IndexState(index)]_vars

(***************************************************************************)
(* Properties of search.                                                   *)
(***************************************************************************)
\* C35: the candidate-list size a search runs with is
\* max(ef argument, configured ef_search, k), so an ef argument above the
\* configured ef_search is the size searched with.
C35_EfArgumentTakesEffect ==
    index.num_elements > 0 =>
        \A k \in 1..MaxK, ef \in EfValues :
            search_expansion(index, k, ef) = Max(Max(ef, index.config.ef_search), k)

\* the keys of the members the primitive reported
KeysOf(results) == {results[j].key : j \in 1..Len(results)}

\* C36: every entry of a search result has a non-null record pointer to a
\* record of the record table and carries that record's id, and the
\* entries are the members the graph primitive reported that have a
\* payload, one entry each: a reported key with no payload is dropped.
C36_ResultsReferToLiveRecords ==
    \A q \in Vectors, k \in 1..MaxK :
        /\ \A r \in search(index, q, k) :
              r.ok => \A i \in 1..Len(r.ret) :
                         /\ ~r.ret[i].data.null
                         /\ r.ret[i].data.key \in DOMAIN index.data
                         /\ r.ret[i].id = index.data[r.ret[i].data.key].id
        /\ Len(q) = index.dimension /\ index.num_elements > 0 =>
              \A results \in USearchSearch(index.us, index.config.metric, q,
                                           actual_k(index, k)) :
                 LET out == search_output(index, results, Len(results)) IN
                 /\ {out[i].data.key : i \in 1..Len(out)}
                        = KeysOf(results) \cap DOMAIN index.data
                 /\ Len(out) = Cardinality(KeysOf(results) \cap DOMAIN index.data)

\* a search has been answered by an index whose graph holds a member with
\* no payload, next to a record the search can return
C36_Witness ==
    /\ last = Called("search", "", TRUE)
    /\ index.num_elements > 0
    /\ \E key \in DOMAIN index.us.vectors : key \notin DOMAIN index.data
    /\ \E key \in DOMAIN index.us.vectors : key \in DOMAIN index.data

(***************************************************************************)
(* Properties of the configuration of a collection.                        *)
(***************************************************************************)
\* the name get_stats gives a metric
MetricName(metric) ==
    CASE metric = "Euclidean" -> "euclidean"
      [] metric = "Cosine" -> "cosine"
      [] metric = "DotProduct" -> "dot_product"

\* the step constructs a new VectorStorage object on the data directory
Reloads == last'.op \in {"restart", "recover"} /\ storage' # storage

\* C37: whichever way a collection came to exist, the metric name
\* get_stats reports for it names the metric its index was constructed
\* with, and the name reported is the same after save_all and after a
\* reload as before.
C37_StatsNameTheIndexMetric ==
    /\ [](\A name \in DOMAIN storage.collections :
            get_stats(storage, name).metric
                = MetricName(storage.collections[name].config.metric))
    /\ [][last'.op \in {"save_all", "restart", "recover"} =>
            \A name \in DOMAIN storage.collections \cap DOMAIN storage'.collections :
                get_stats(storage', name).metric = get_stats(storage, name).metric]_vars

\* the configuration of a collection: what the manager keeps of it and
\* what its index was constructed with
Configuration(st, name) ==
    [name |-> st.configs[name].name,
     dimension |-> st.collections[name].dimension,
     metric |-> st.configs[name].metric,
     M |-> st.collections[name].config.M,
     ef_construction |-> st.collections[name].config.ef_construction,
     ef_search |-> st.collections[name].config.ef_search,
     max_elements |-> st.collections[name].config.max_elements]

\* C38: a collection that is there after save_all and a reload has the
\* name, dimension, metric, M, ef_construction, ef_search and max_elements
\* it had before, which are those create_collection was called with.
C38_ConfigurationSurvivesReload ==
    [][Reloads =>
          \A name \in DOMAIN storage.collections \cap DOMAIN storage'.collections :
              Configuration(storage', name) = Configuration(storage, name)]_vars

=============================================================================
